---- MODULE Spec2Model ----
(***************************************************************************)
(* State-machine model of the diarization pipeline of                      *)
(* src/src/diarizer/lpa_diarizer.py: shape normalisation, cross-channel    *)
(* deduplication, speaker-range lookup, utterance segmentation, utterance  *)
(* coalescing, the three renderers, the naming-oracle call and the Lambda  *)
(* handler that strings them together.                                     *)
(*                                                                         *)
(* Conventions.                                                            *)
(*  - Times are integers on a millisecond grid (1.2 s = 1200, 0.001 s = 1).*)
(*    A timing field of a token is a tagged value: a number, absent, or    *)
(*    "bad" (a value float() rejects with ValueError).                     *)
(*  - A text is a sequence of one-character strings; "" is <<>>.           *)
(*  - Python None is <<>> for optional numbers (Some(x) is <<x>>) and the  *)
(*    string NoLabel for speaker labels.                                   *)
(***************************************************************************)
EXTENDS Integers, Sequences, FiniteSets, TLC

\* ---------------------------------------------------------------- constants
\* Deduplication epsilon, 0.001 s.
EPS == 1
\* Default gap_seconds of reconstruct_utterances_with_timestamps, 1.2 s.
GAP == 1200
\* Default start_time of the deduplication comparison, -1.0 s.
DEDUP_DEFAULT_START == -1000
\* blank_lines passed by lambda_handler to format_diarized_lines_no_ts.
BLANK_LINES == 2

\* ------------------------------------------------------------------- bounds
\* Most tokens in a document.
MaxItems == 3
\* Largest start-time offset (ms) inside a burst of speech.
MaxOff == 2
\* Most utterances in a list handed to coalesce_utterances on its own.
MaxUtts == 3

\* ------------------------------------------------------------ basic values
None == <<>>
Some(x) == <<x>>
NoLabel == "<None>"
\* Python truthiness of a speaker label (None and "" are falsy).
Truthy(lab) == lab # NoLabel /\ lab # ""

Abs(n) == IF n < 0 THEN -n ELSE n

Num(v) == [k |-> "num", v |-> v]
AbsentField == [k |-> "absent", v |-> 0]
BadField == [k |-> "bad", v |-> 0]

\* float(d.get(key, default)): defined unless the field is unparseable.
FloatRaises(f) == f.k = "bad"
FloatOf(f, default) == IF f.k = "num" THEN f.v ELSE default

\* ------------------------------------------------------------------- texts
WS == {" ", "\n"}
EndsWithWS(s) == Len(s) > 0 /\ s[Len(s)] \in WS

RECURSIVE LStrip(_)
LStrip(s) == IF s # <<>> /\ Head(s) \in WS THEN LStrip(Tail(s)) ELSE s

RECURSIVE RStrip(_)
RStrip(s) ==
  IF s # <<>> /\ s[Len(s)] \in WS THEN RStrip(SubSeq(s, 1, Len(s) - 1)) ELSE s

\* str.strip()
Strip(s) == RStrip(LStrip(s))

\* "".join(parts)
RECURSIVE Join(_)
Join(parts) == IF parts = <<>> THEN <<>> ELSE Head(parts) \o Join(Tail(parts))

\* ------------------------------------------------------------------ tokens
\* alts: "ok" (alternatives = [{content}]), "absent" (no alternatives key),
\* "empty" (alternatives = []), "nondict" (alternatives[0] is not a dict).
Pron(st, en, c, lab) ==
  [isdict |-> TRUE, type |-> "pronunciation", start_time |-> st,
   end_time |-> en, alts |-> "ok", content |-> c, speaker_label |-> lab]

Punct(c) ==
  [isdict |-> TRUE, type |-> "punctuation", start_time |-> AbsentField,
   end_time |-> AbsentField, alts |-> "ok", content |-> c,
   speaker_label |-> NoLabel]

\* A list entry that is not a dict (a string, a number, null).
NonDict ==
  [isdict |-> FALSE, type |-> "", start_time |-> AbsentField,
   end_time |-> AbsentField, alts |-> "absent", content |-> <<>>,
   speaker_label |-> NoLabel]

Seg(st, en, lab) ==
  [isdict |-> TRUE, start_time |-> st, end_time |-> en, speaker_label |-> lab]

SeqsUpTo(S, n) == UNION {[1..k -> S] : k \in 0..n}

\* ------------------------------------------------------- shape normalisation
\* all_channel_items: the items of every channel, concatenated in channel
\* order. A document's channels field holds, per channel, the list the code
\* extends all_channel_items with (channel["items"], or the channel itself).
RECURSIVE ConcatAll(_)
ConcatAll(chs) ==
  IF chs = <<>> THEN <<>> ELSE Head(chs) \o ConcatAll(Tail(chs))

\* [it for it in ... if isinstance(it, dict)]
RECURSIVE OnlyDicts(_)
OnlyDicts(s) ==
  IF s = <<>> THEN <<>>
  ELSE (IF Head(s).isdict THEN <<Head(s)>> ELSE <<>>) \o OnlyDicts(Tail(s))

\* key=lambda x: float(x.get("start_time", "inf")); <<1, 0>> is +inf.
SortKey(it) ==
  IF it.start_time.k = "num" THEN <<0, it.start_time.v>> ELSE <<1, 0>>

KeyLess(a, b) == a[1] < b[1] \/ (a[1] = b[1] /\ a[2] < b[2])

\* The key function raises ValueError on an unparseable start_time.
SortRaises(s) == \E i \in 1..Len(s) : FloatRaises(s[i].start_time)

\* Place of s[i] in sorted(s, key=...): Python's sort is stable.
SortRank(s, i) ==
  1 + Cardinality({j \in 1..Len(s) :
        \/ KeyLess(SortKey(s[j]), SortKey(s[i]))
        \/ (SortKey(s[j]) = SortKey(s[i]) /\ j < i)})

\* The permutation the sort applies: place p holds s[SortPerm(s)[p]].
SortPerm(s) ==
  [p \in 1..Len(s) |-> CHOOSE i \in 1..Len(s) : SortRank(s, i) = p]

Pick(s, ix) == [p \in 1..Len(ix) |-> s[ix[p]]]

SortedByStart(s) == Pick(s, SortPerm(s))

\* ----------------------------------------------------------- deduplication
\* prev.get("alternatives", [{}])[0].get("content", "")
DedupContent(it) == IF it.alts = "absent" THEN <<>> ELSE it.content

\* Anything in the try block raised: float() of an unparseable start_time,
\* [0] of an empty alternatives list, .get of a non-dict alternative.
DedupCompareRaises(prev, curr) ==
  \/ FloatRaises(prev.start_time)
  \/ FloatRaises(curr.start_time)
  \/ prev.alts \in {"empty", "nondict"}
  \/ curr.alts \in {"empty", "nondict"}

\* Whether curr is appended to unique_items, prev being unique_items[-1].
DedupKeeps(prev, curr) ==
  IF DedupCompareRaises(prev, curr) THEN TRUE
  ELSE LET t1 == FloatOf(prev.start_time, DEDUP_DEFAULT_START)
           t2 == FloatOf(curr.start_time, DEDUP_DEFAULT_START)
       IN  Abs(t2 - t1) > EPS \/ DedupContent(prev) # DedupContent(curr)

\* Mutant: the scan compares each item with the last item seen, its[i - 1],
\* instead of the last item retained.
RECURSIVE DedupScanLastSeen(_, _, _)
DedupScanLastSeen(its, i, kept) ==
  IF i > Len(its) THEN kept
  ELSE DedupScanLastSeen(its, i + 1,
         IF DedupKeeps(its[i - 1], its[i]) THEN Append(kept, i) ELSE kept)

\* The scan from item i on; kept holds the indices retained so far.
RECURSIVE DedupScan(_, _, _)
DedupScan(its, i, kept) ==
  IF i > Len(its) THEN kept
  ELSE DedupScan(its, i + 1,
         IF DedupKeeps(its[kept[Len(kept)]], its[i])
         THEN Append(kept, i) ELSE kept)

\* Indices of items that make up unique_items.
DedupIndices(its) == IF its = <<>> THEN <<>> ELSE DedupScan(its, 2, <<1>>)

\* ----------------------------------------------------------- speaker ranges
BuildRangesRaises(d) ==
  /\ d.has_speaker_labels
  /\ \E i \in 1..Len(d.segments) :
       /\ d.segments[i].isdict
       /\ (FloatRaises(d.segments[i].start_time)
           \/ FloatRaises(d.segments[i].end_time))

RECURSIVE RangesOf(_)
RangesOf(segs) ==
  IF segs = <<>> THEN <<>>
  ELSE LET s == Head(segs)
       IN  (IF s.isdict /\ s.speaker_label # NoLabel
            THEN << <<FloatOf(s.start_time, 0), FloatOf(s.end_time, 0),
                      s.speaker_label>> >>
            ELSE <<>>) \o RangesOf(Tail(segs))

\* _build_ranges
BuildRanges(d) == IF ~d.has_speaker_labels THEN <<>> ELSE RangesOf(d.segments)

\* Mutant: the interval is closed, st <= t <= en.
SpeakerForTimeClosed(rs, t, last_label) ==
  LET hits == {i \in 1..Len(rs) : rs[i][1] <= t /\ t <= rs[i][2]}
  IN  IF hits = {} THEN last_label
      ELSE rs[CHOOSE i \in hits : \A j \in hits : i <= j][3]

\* Mutant: a time in no range is given to "spk_0" when there is no last label.
SpeakerForTimeDefaultSpk0(rs, t, last_label) ==
  LET hits == {i \in 1..Len(rs) : rs[i][1] <= t /\ t < rs[i][2]}
  IN  IF hits = {} THEN (IF last_label = NoLabel THEN "spk_0" ELSE last_label)
      ELSE rs[CHOOSE i \in hits : \A j \in hits : i <= j][3]

\* _speaker_for_time
SpeakerForTime(rs, t, last_label) ==
  LET hits == {i \in 1..Len(rs) : rs[i][1] <= t /\ t < rs[i][2]}
  IN  IF hits = {} THEN last_label
      ELSE rs[CHOOSE i \in hits : \A j \in hits : i <= j][3]

\* ------------------------------------------------------------- segmentation
EmptyCur ==
  [speaker_label |-> NoLabel, start_time |-> None, end_time |-> None,
   text_parts |-> <<>>]

\* The condition under which _flush appends an utterance.
FlushEmits(c) == Truthy(c.speaker_label) /\ c.text_parts # <<>>

FlushUtterance(c) ==
  [speaker_label |-> c.speaker_label, start_time |-> c.start_time[1],
   end_time |-> c.end_time[1], text |-> Strip(Join(c.text_parts))]

\* utterances after _flush()
Flushed(utts, c) ==
  IF FlushEmits(c) THEN Append(utts, FlushUtterance(c)) ELSE utts

\* The loop skips an item whose alternatives are absent or empty.
LoopSkips(it) == it.alts \in {"absent", "empty"}

\* alts[0].get("content", "") if isinstance(alts[0], dict) else ""
LoopContent(it) == IF it.alts = "ok" THEN it.content ELSE <<>>

IsPron(it) == it.type = "pronunciation"

PronRaises(it) == FloatRaises(it.start_time) \/ FloatRaises(it.end_time)

\* The embedded label if truthy, else the range lookup with the buffer's label
\* as fallback.
ResolveLabel(it, rs, c) ==
  IF Truthy(it.speaker_label) THEN it.speaker_label
  ELSE SpeakerForTime(rs, FloatOf(it.start_time, 0), c.speaker_label)

\* Mutant: a silence equal to gap_seconds splits too.
ShouldFlushAtGap(label, st, c, lwe) ==
  \/ label # c.speaker_label
  \/ (lwe # None /\ st - lwe[1] >= GAP)

\* Speaker changed, or the silence since the last word exceeds gap_seconds.
ShouldFlush(label, st, c, lwe) ==
  \/ label # c.speaker_label
  \/ (lwe # None /\ st - lwe[1] > GAP)

\* The buffer's parts after the "add space if needed" step.
WithSpace(parts) ==
  IF parts # <<>> /\ ~EndsWithWS(parts[Len(parts)])
  THEN Append(parts, <<" ">>) ELSE parts

\* Mutant: a fresh buffer is stamped with the token's end_time, not its
\* start_time.
CurAfterPronStartAtEnd(it, rs, c, lwe) ==
  LET st == FloatOf(it.start_time, 0)
      en == FloatOf(it.end_time, 0)
      label == ResolveLabel(it, rs, c)
      c1 == IF ShouldFlush(label, st, c, lwe)
            THEN [EmptyCur EXCEPT !.speaker_label = label,
                                  !.start_time = Some(en)]
            ELSE c
  IN  [c1 EXCEPT !.text_parts = Append(WithSpace(c1.text_parts),
                                       LoopContent(it)),
                 !.end_time = Some(en)]

\* Mutant: every pronunciation token stamps start_time.
CurAfterPronRestampsStart(it, rs, c, lwe) ==
  LET st == FloatOf(it.start_time, 0)
      en == FloatOf(it.end_time, 0)
      label == ResolveLabel(it, rs, c)
      c1 == IF ShouldFlush(label, st, c, lwe)
            THEN [EmptyCur EXCEPT !.speaker_label = label]
            ELSE c
  IN  [c1 EXCEPT !.text_parts = Append(WithSpace(c1.text_parts),
                                       LoopContent(it)),
                 !.start_time = Some(st),
                 !.end_time = Some(en)]

\* Mutant: a token whose content is "" adds no part.
CurAfterPronSkipsEmptyContent(it, rs, c, lwe) ==
  LET st == FloatOf(it.start_time, 0)
      en == FloatOf(it.end_time, 0)
      label == ResolveLabel(it, rs, c)
      c1 == IF ShouldFlush(label, st, c, lwe)
            THEN [EmptyCur EXCEPT !.speaker_label = label,
                                  !.start_time = Some(st)]
            ELSE c
  IN  IF LoopContent(it) = <<>> THEN [c1 EXCEPT !.end_time = Some(en)]
      ELSE [c1 EXCEPT !.text_parts = Append(WithSpace(c1.text_parts),
                                            LoopContent(it)),
                      !.end_time = Some(en)]

\* The buffer after a pronunciation token.
CurAfterPron(it, rs, c, lwe) ==
  LET st == FloatOf(it.start_time, 0)
      en == FloatOf(it.end_time, 0)
      label == ResolveLabel(it, rs, c)
      c1 == IF ShouldFlush(label, st, c, lwe)
            THEN [EmptyCur EXCEPT !.speaker_label = label,
                                  !.start_time = Some(st)]
            ELSE c
  IN  [c1 EXCEPT !.text_parts = Append(WithSpace(c1.text_parts),
                                       LoopContent(it)),
                 !.end_time = Some(en)]

\* Mutant: a punctuation token with an inline label hands it to the buffer.
CurAfterPunctTakesLabel(it, c) ==
  [c EXCEPT !.text_parts = Append(c.text_parts, LoopContent(it)),
            !.speaker_label = IF Truthy(it.speaker_label)
                              THEN it.speaker_label ELSE c.speaker_label]

\* The buffer after a punctuation token.
CurAfterPunct(it, c) ==
  [c EXCEPT !.text_parts = Append(c.text_parts, LoopContent(it))]

\* --------------------------------------------------------------- coalescing
\* last["text"] after the append-with-spacing step of a merge.
MergeText(last_text, utext) ==
  (IF last_text # <<>> /\ ~EndsWithWS(last_text)
   THEN last_text \o <<" ">> ELSE last_text) \o utext

\* Mutant: without a gap policy only utterances that touch or overlap merge.
GapOkNoneIsZero(u, last, g) ==
  IF g = None THEN u.start_time - last.end_time <= 0
  ELSE u.start_time - last.end_time <= g[1]

\* Mutant: the pause is measured to the incoming utterance's end_time.
GapOkByEnd(u, last, g) ==
  IF g = None THEN TRUE ELSE u.end_time - last.end_time <= g[1]

\* gap_ok; g is None or Some(number).
GapOk(u, last, g) ==
  IF g = None THEN TRUE ELSE u.start_time - last.end_time <= g[1]

CoalesceMerges(u, last, g) ==
  u.speaker_label = last.speaker_label /\ GapOk(u, last, g)

\* Mutant: a merge leaves end_time as it was.
MergeIntoKeepEnd(last, u) ==
  [last EXCEPT !.text = MergeText(last.text, u.text)]

\* The accumulated entry after u is merged into it.
MergeInto(last, u) ==
  [last EXCEPT !.text = MergeText(last.text, u.text),
               !.end_time = u.end_time]

\* Mutant: merged starts with the argument's first dict itself.
AliasFirstOnly(arg, i) ==
  [val |-> arg[i], alias |-> IF i = 1 THEN 1 ELSE 0]

\* Mutant: merged holds the argument's own dicts (no dict(u) copy).
AliasOf(arg, i) == [val |-> arg[i], alias |-> i]

\* An entry of merged: its value, and which element of the argument list the
\* entry is (0: none, it is a fresh dict). dict(u) makes a fresh dict.
CopyOf(arg, i) == [val |-> arg[i], alias |-> 0]

\* The fold from utterance i on. st.merged is the accumulator, st.arg the
\* argument list as the in-place updates of merged[-1] leave it.
RECURSIVE CoalesceFrom(_, _, _)
CoalesceFrom(st, i, g) ==
  IF i > Len(st.arg) THEN st
  ELSE LET n == Len(st.merged)
           last == st.merged[n]
           u == st.arg[i]
       IN  IF CoalesceMerges(u, last.val, g)
           THEN LET m == MergeInto(last.val, u)
                IN  CoalesceFrom(
                      [merged |-> [st.merged EXCEPT ![n].val = m],
                       arg |-> IF last.alias = 0 THEN st.arg
                               ELSE [st.arg EXCEPT ![last.alias] = m]],
                      i + 1, g)
           ELSE CoalesceFrom(
                  [merged |-> Append(st.merged, CopyOf(st.arg, i)),
                   arg |-> st.arg],
                  i + 1, g)

CoalesceRun(utts, g) ==
  IF utts = <<>> THEN [merged |-> <<>>, arg |-> utts]
  ELSE CoalesceFrom([merged |-> <<CopyOf(utts, 1)>>, arg |-> utts], 2, g)

\* The list coalesce_utterances returns.
coalesce_utterances(utts, g) ==
  LET r == CoalesceRun(utts, g) IN [k \in 1..Len(r.merged) |-> r.merged[k].val]

\* The argument list after the call.
ArgAfterCoalesce(utts, g) == CoalesceRun(utts, g).arg

\* ---------------------------------------------------------------- renderers
\* A rendered string is a sequence of atoms: the characters of texts, and one
\* atom for each label, name, number or literal piece of the format.
RECURSIVE JoinWith(_, _)
JoinWith(lines, sep) ==
  IF lines = <<>> THEN <<>>
  ELSE IF Len(lines) = 1 THEN lines[1]
  ELSE lines[1] \o sep \o JoinWith(Tail(lines), sep)

\* "\n" * n
Newlines(n) == [k \in 1..n |-> "\n"]

\* f"[{u['speaker_label']}] {u['text']}"
RawLine(u) == <<"[", u.speaker_label, "] ">> \o u.text

build_raw_for_bedrock(utts) ==
  JoinWith([k \in 1..Len(utts) |-> RawLine(utts[k])], <<"\n">>)

\* dict.get(key, default) on the speaker map, a function from labels to names.
MapGet(m, key, default) == IF key \in DOMAIN m THEN m[key] ELSE default

UNKNOWN_SPEAKER == "[UNKNOWN SPEAKER]"

\* f"**{name}:** {u['text']}"
TxtLine(u, m) ==
  <<"**", MapGet(m, u.speaker_label, UNKNOWN_SPEAKER), ":** ">> \o u.text

format_diarized_lines_no_ts(utts, m, blank_lines) ==
  JoinWith([k \in 1..Len(utts) |-> TxtLine(utts[k], m)],
           Newlines(blank_lines + 1)) \o <<"\n">>

\* json.dumps of a string value: quoted. Of None: null.
JsonStr(x) == "\"" \o x \o "\""
JsonNull == "null"

\* json.dumps of the characters of a text: a newline is written \n.
JsonChar(c) == IF c = "\n" THEN "\\n" ELSE c
JsonText(t) == <<"\"">> \o [k \in 1..Len(t) |-> JsonChar(t[k])] \o <<"\"">>

\* json.dumps({...}, ensure_ascii=False) of one utterance.
JsonRow(u, m) ==
  <<"{", "start_time", ToString(u.start_time),
         "end_time", ToString(u.end_time),
         "speaker_label", JsonStr(u.speaker_label),
         "speaker_name",
           IF u.speaker_label \in DOMAIN m THEN JsonStr(m[u.speaker_label])
           ELSE JsonNull,
         "text">> \o JsonText(u.text) \o <<"}">>

utterances_to_jsonl(utts, m) ==
  JoinWith([k \in 1..Len(utts) |-> JsonRow(utts[k], m)], <<"\n">>)

\* ------------------------------------------------------------ naming oracle
EmptyMap == <<>>

\* Mutant: json.loads of the matched text is outside the try block.
SpeakerMapParseOutsideTry(reply) ==
  [raised |-> reply.kind = "bad_json",
   map |-> IF reply.kind = "json" THEN reply.map ELSE EmptyMap]

\* What the call yields. reply.kind is what happened to the request:
\*  "client_error"  invoke_model raised botocore ClientError
\*  "other_error"   any other exception (timeout, body not as expected)
\*  "no_json"       the reply's text holds no {...}
\*  "bad_json"      the {...} found does not parse (json.loads raises)
\*  "json"          the {...} parses to reply.map
get_speaker_map_via_bedrock(reply) ==
  [raised |-> FALSE,
   map |-> IF reply.kind = "json" THEN reply.map ELSE EmptyMap]

\* -------------------------------------------------------------------- state
VARIABLES
  doc,               \* the transcript document (json.loads of the S3 object)
  pc,                \* where the run is
  err,               \* the exception raised ("" when none)
  items,             \* items after harvesting (and sorting, in channel mode)
  kept_idx,          \* indices of items retained by the deduplication scan
  unique_items,      \* items after deduplication
  ranges,            \* [(start, end, label)] of _build_ranges
  utterances,        \* reconstruct's utterances; lambda_handler's utterances
  cur,               \* the segmentation buffer
  last_word_end,     \* None or Some(end of the last pronunciation token)
  idx,               \* index in unique_items of the next token of the loop
  log,               \* history: per token processed, what the loop did
  nflush,            \* history: number of _flush() calls so far
  utt_buf,           \* history: per utterance emitted, the buffer it came from
  recon_out,         \* history: the list reconstruct returned
  raw_for_bedrock,   \* lambda_handler locals from here on
  reply,
  speaker_map,
  coalesced_for_txt,
  final_txt,
  final_jsonl,
  s3,                \* objects written: set of [key, body]
  co_in,             \* history: the list a direct coalesce_utterances call got
  co_gap,            \* gap_seconds of that call
  co_out1,           \* its result
  co_out2,           \* the result of coalescing co_out1 again
  event,             \* the event a router or media fetcher invocation got
  STATE_MACHINE_ARN, \* router: the environment variable, None when unset
  params,            \* router: the parameters dict
  status_code,       \* router: status_code
  response_data,     \* router: response_data
  sfn_calls,         \* history: the inputs of the start_execution calls made
  final_response,    \* router: the value returned, None before the return
  site,              \* fetcher: what the legislature's site serves
  bucket,            \* fetcher: keys in S3_BUCKET when the handler starts
  media_url,         \* fetcher: media_url, None when it could not be built
  s3_check_key,      \* fetcher: s3_check_key
  final_output_file, \* fetcher: final_output_file
  downloads,         \* history: the URLs download_with_ffmpeg was called on
  uploads,           \* history: the keys upload_file was called on
  fetched            \* fetcher: the value returned

vars ==
  <<doc, pc, err, items, kept_idx, unique_items, ranges, utterances, cur,
    last_word_end, idx, log, nflush, utt_buf, recon_out, raw_for_bedrock,
    reply, speaker_map, coalesced_for_txt, final_txt, final_jsonl, s3,
    co_in, co_gap, co_out1, co_out2, event, STATE_MACHINE_ARN, params,
    status_code, response_data, sfn_calls, final_response, site, bucket,
    media_url, s3_check_key, final_output_file, downloads, uploads, fetched>>

reconVars ==
  <<items, kept_idx, unique_items, ranges, utterances, cur, last_word_end,
    idx, log, nflush, utt_buf, recon_out>>

handlerVars ==
  <<raw_for_bedrock, reply, speaker_map, coalesced_for_txt, final_txt,
    final_jsonl, s3>>

coVars == <<co_in, co_gap, co_out1, co_out2>>

routerVars ==
  <<STATE_MACHINE_ARN, params, status_code, response_data, sfn_calls,
    final_response>>

fetcherVars ==
  <<site, bucket, media_url, s3_check_key, final_output_file, downloads,
    uploads, fetched>>

\* State of the two other Lambda functions, which the diarizer never touches.
serviceVars == <<event, routerVars, fetcherVars>>

\* ---------------------------------------------------------------- documents
MkDoc(isd, hasch, chs, hasit, its, hassl, segs) ==
  [results_is_dict |-> isd, has_channel_labels |-> hasch, channels |-> chs,
   has_items |-> hasit, items |-> its, has_speaker_labels |-> hassl,
   segments |-> segs]

ItemsDoc(its, hassl, segs) == MkDoc(TRUE, FALSE, <<>>, TRUE, its, hassl, segs)
ChannelDoc(chs, hassl, segs) == MkDoc(TRUE, TRUE, chs, FALSE, <<>>, hassl, segs)

Offs == 0..MaxOff
\* Start times: a burst at 0..MaxOff, and words one and two gaps after it.
Times == Offs \cup {GAP + MaxOff, 2 * GAP + MaxOff}
LastTime == 2 * GAP + MaxOff + 2

\* One speaker throughout.
RangesOne == << Seg(Num(0), Num(LastTime), "spk_0") >>
\* Two overlapping ranges: the first one listed wins on [1, 2).
RangesTwo ==
  << Seg(Num(0), Num(2), "spk_0"), Seg(Num(1), Num(LastTime), "spk_1") >>

SpeakerLabelChoices ==
  { <<FALSE, <<>> >>, <<TRUE, RangesOne>>, <<TRUE, RangesTwo>> }

\* Timed words of one text, and a comma: segmentation by speaker and by gap.
TimedToks ==
  {Pron(Num(s), Num(s + d), <<"a">>, NoLabel) : s \in Times, d \in {0, 1}}
    \cup {Punct(<<",">>)}

TimedDocs ==
  {ItemsDoc(its, sl[1], sl[2]) :
     its \in SeqsUpTo(TimedToks, MaxItems), sl \in SpeakerLabelChoices}

\* Words of two texts close in time, punctuation, and malformed entries:
\* merging and deduplication.
DupToks ==
  {Pron(Num(s), Num(s), <<c>>, NoLabel) : s \in Offs, c \in {"a", "b"}}
    \cup {Punct(<<",">>),
          Pron(BadField, Num(0), <<"a">>, NoLabel),
          [Pron(Num(0), Num(0), <<>>, NoLabel) EXCEPT !.alts = "empty"],
          [Pron(Num(0), Num(0), <<>>, NoLabel) EXCEPT !.alts = "absent"],
          NonDict}

DupItemsDocs ==
  {ItemsDoc(its, TRUE, RangesOne) : its \in SeqsUpTo(DupToks, MaxItems)}

\* Two channels holding MaxItems tokens at most between them.
DupChannelDocs ==
  UNION {{ChannelDoc(<<c1, c2>>, TRUE, RangesOne) :
            c1 \in [1..n1 -> DupToks],
            c2 \in UNION {[1..n2 -> DupToks] : n2 \in 0..(MaxItems - n1)}} :
         n1 \in 0..MaxItems}

\* Words that carry an embedded speaker label (a name, "", or none).
LabelToks ==
  {Pron(Num(s), Num(s), <<"a">>, lab) :
     s \in {0, MaxOff, GAP + MaxOff + 1},
     lab \in {"spk_0", "spk_1", "", NoLabel}}
    \cup {Punct(<<",">>),
          [Punct(<<",">>) EXCEPT !.speaker_label = "spk_1",
                                !.start_time = Num(GAP + MaxOff + 1),
                                !.end_time = Num(GAP + MaxOff + 1)]}

LabelDocs ==
  {ItemsDoc(its, sl[1], sl[2]) :
     its \in SeqsUpTo(LabelToks, MaxItems),
     sl \in {<<FALSE, <<>> >>, <<TRUE, RangesTwo>>}}

\* No usable structure: results is not an object; no token source.
BrokenDocs ==
  {MkDoc(FALSE, FALSE, <<>>, FALSE, <<>>, FALSE, <<>>)}
    \cup {MkDoc(TRUE, FALSE, <<>>, FALSE, <<>>, sl[1], sl[2]) :
            sl \in SpeakerLabelChoices}

\* Speaker ranges in any order, overlapping, and malformed ones: an entry
\* that is not a dict, a range without a label, with the label "", with a
\* start_time that is not numeric, with no times at all.
SegChoices ==
  {Seg(Num(0), Num(2), "spk_0"),
   Seg(Num(1), Num(LastTime), "spk_1"),
   Seg(Num(0), Num(1), ""),
   Seg(Num(0), Num(2), NoLabel),
   Seg(BadField, Num(2), "spk_0"),
   Seg(AbsentField, AbsentField, "spk_1"),
   [Seg(AbsentField, AbsentField, NoLabel) EXCEPT !.isdict = FALSE]}

\* Words looked up in the ranges, one of them with the content "".
RangeToks ==
  {Pron(Num(s), Num(s), <<"a">>, NoLabel) : s \in Offs}
    \cup {Punct(<<",">>), Pron(Num(0), Num(0), <<>>, NoLabel)}

RangeDocs ==
  {ItemsDoc(its, TRUE, segs) :
     its \in SeqsUpTo(RangeToks, 2), segs \in SeqsUpTo(SegChoices, 2)}

\* A range with the label "" listed before the speaker's range: the words at
\* time 1 resolve to "", those at 0 and 2 to spk_0.
RangesEmptyLabel ==
  << Seg(Num(1), Num(2), ""), Seg(Num(0), Num(LastTime), "spk_0") >>

EmptyLabelToks ==
  {Pron(Num(s), Num(s), <<c>>, NoLabel) : s \in Offs, c \in {"a", "b"}}
    \cup {Punct(<<",">>)}

EmptyLabelDocs ==
  {ItemsDoc(its, TRUE, RangesEmptyLabel) :
     its \in SeqsUpTo(EmptyLabelToks, MaxItems)}

ReconDocs ==
  TimedDocs \cup LabelDocs \cup DupItemsDocs \cup DupChannelDocs
    \cup RangeDocs \cup EmptyLabelDocs \cup BrokenDocs

\* ------------------------------------------- router and fetcher: basic values
\* dict.get(key) on a missing key; "" and None are the falsy values.
NoValue == NoLabel

\* event.get(key, default)
GetOr(field, default) == IF field = None THEN default ELSE field[1]

EmptyDict == [k \in {} |-> ""]
DictSet(d, k, v) == [x \in DOMAIN d \cup {k} |-> IF x = k THEN v ELSE d[x]]
DictGet(d, k) == IF k \in DOMAIN d THEN d[k] ELSE NoValue

\* One entry of event['parameters'] or of the request body's properties; an
\* entry without a 'name' key has name = None.
Param(n, v) == [name |-> Some(n), value |-> v]
NamelessParam == [name |-> None, value |-> "x"]

\* response_data before it is assigned (the empty dict of line 45).
NoData == [kind |-> "empty", committee |-> NoValue]

InitRouterLocals ==
  /\ params = EmptyDict
  /\ status_code = 200
  /\ response_data = NoData
  /\ sfn_calls = <<>>
  /\ final_response = None

\* The router is not running.
RouterIdle ==
  /\ STATE_MACHINE_ARN = None
  /\ InitRouterLocals

\* agendaDate of a media link: missing, not a "%Y-%m-%d-%H:%M:%S" date, or a
\* date with the pieces strftime takes from it.
NoAgendaDate == [k |-> "absent", year |-> "", mmdd |-> "", time |-> ""]
BadAgendaDate == [k |-> "bad", year |-> "", mmdd |-> "", time |-> ""]
AgendaDate(y, md, t) == [k |-> "dt", year |-> y, mmdd |-> md, time |-> t]

\* A site on which nothing is found.
NoSite ==
  [driver_ok |-> FALSE, code |-> "", list_found |-> FALSE, choice |-> None]

InitFetcherLocals ==
  /\ media_url = None
  /\ s3_check_key = ""
  /\ final_output_file = None
  /\ downloads = <<>>
  /\ uploads = <<>>
  /\ fetched = None

\* The media fetcher is not running.
FetcherIdle ==
  /\ site = NoSite
  /\ bucket = {}
  /\ InitFetcherLocals

\* ------------------------------------------------------------ initial state
InitDiarizerLocals ==
  /\ err = ""
  /\ items = <<>>
  /\ kept_idx = <<>>
  /\ unique_items = <<>>
  /\ ranges = <<>>
  /\ cur = EmptyCur
  /\ last_word_end = None
  /\ idx = 1
  /\ log = <<>>
  /\ nflush = 0
  /\ utt_buf = <<>>
  /\ recon_out = <<>>
  /\ raw_for_bedrock = <<>>
  /\ reply = [kind |-> "none", map |-> EmptyMap]
  /\ speaker_map = EmptyMap
  /\ coalesced_for_txt = <<>>
  /\ final_txt = <<>>
  /\ final_jsonl = <<>>
  /\ s3 = {}
  /\ co_out1 = <<>>
  /\ co_out2 = <<>>

\* The locals of a diarizer run; the other two functions are idle.
InitLocals ==
  /\ InitDiarizerLocals
  /\ event = None
  /\ RouterIdle
  /\ FetcherIdle

\* A run that starts from a document.
InitRun ==
  /\ pc = "harvest"
  /\ utterances = <<>>
  /\ co_in = <<>>
  /\ co_gap = None
  /\ InitLocals

\* ------------------------------------- reconstruct_utterances_with_timestamps
Raise(e) ==
  /\ pc' = "raised"
  /\ err' = e

\* Mutant: a document without items and channel_labels is read as one with
\* no tokens.
HarvestMissingAsEmpty ==
  /\ pc = "harvest"
  /\ IF ~doc.results_is_dict
     THEN Raise("TypeError") /\ UNCHANGED items
     ELSE /\ items' = (IF doc.has_channel_labels
                       THEN SortedByStart(OnlyDicts(ConcatAll(doc.channels)))
                       ELSE OnlyDicts(doc.items))
          /\ pc' = "dedup"
          /\ UNCHANGED err
  /\ UNCHANGED <<doc, kept_idx, unique_items, ranges, utterances, cur,
                 last_word_end, idx, log, nflush, utt_buf, recon_out>>
  /\ UNCHANGED handlerVars
  /\ UNCHANGED coVars
  /\ UNCHANGED serviceVars

\* Lines 78-119: the results check and the harvest of the token source.
Harvest ==
  /\ pc = "harvest"
  /\ IF ~doc.results_is_dict
     THEN Raise("TypeError") /\ UNCHANGED items
     ELSE IF doc.has_channel_labels
     THEN LET its == OnlyDicts(ConcatAll(doc.channels))
          IN  IF SortRaises(its)
              THEN Raise("ValueError") /\ UNCHANGED items
              ELSE /\ items' = SortedByStart(its)
                   /\ pc' = "dedup"
                   /\ UNCHANGED err
     ELSE IF doc.has_items
     THEN /\ items' = OnlyDicts(doc.items)
          /\ pc' = "dedup"
          /\ UNCHANGED err
     ELSE Raise("ValueError") /\ UNCHANGED items
  /\ UNCHANGED <<doc, kept_idx, unique_items, ranges, utterances, cur,
                 last_word_end, idx, log, nflush, utt_buf, recon_out>>
  /\ UNCHANGED handlerVars
  /\ UNCHANGED coVars
  /\ UNCHANGED serviceVars

\* Lines 121-147: the deduplication scan.
Dedup ==
  /\ pc = "dedup"
  /\ kept_idx' = DedupIndices(items)
  /\ unique_items' = Pick(items, DedupIndices(items))
  /\ pc' = "ranges"
  /\ UNCHANGED <<doc, err, items, ranges, utterances, cur, last_word_end,
                 idx, log, nflush, utt_buf, recon_out>>
  /\ UNCHANGED handlerVars
  /\ UNCHANGED coVars
  /\ UNCHANGED serviceVars

\* Line 150: ranges = _build_ranges(transcribe), and the loop's locals.
Ranges ==
  /\ pc = "ranges"
  /\ IF BuildRangesRaises(doc)
     THEN Raise("ValueError") /\ UNCHANGED ranges
     ELSE /\ ranges' = BuildRanges(doc)
          /\ pc' = "loop"
          /\ UNCHANGED err
  /\ UNCHANGED <<doc, items, kept_idx, unique_items, utterances, cur,
                 last_word_end, idx, log, nflush, utt_buf, recon_out>>
  /\ UNCHANGED handlerVars
  /\ UNCHANGED coVars
  /\ UNCHANGED serviceVars

LogEntry(i, kind, label, st, en, buf) ==
  [i |-> i, kind |-> kind, label |-> label, st |-> st, en |-> en, buf |-> buf]

\* Lines 168-199: one iteration of the loop, on unique_items[idx].
Step ==
  /\ pc = "loop"
  /\ idx <= Len(unique_items)
  /\ LET it == unique_items[idx]
     IN  IF LoopSkips(it)
         THEN /\ idx' = idx + 1
              /\ log' = Append(log, LogEntry(idx, "skip", NoLabel, 0, 0, nflush))
              /\ UNCHANGED <<pc, err, utterances, cur, last_word_end, nflush,
                             utt_buf>>
         ELSE IF IsPron(it)
         THEN IF PronRaises(it)
              THEN /\ Raise("ValueError")
                   /\ UNCHANGED <<utterances, cur, last_word_end, idx, log,
                                  nflush, utt_buf>>
              ELSE LET st == FloatOf(it.start_time, 0)
                       en == FloatOf(it.end_time, 0)
                       label == ResolveLabel(it, ranges, cur)
                       fl == ShouldFlush(label, st, cur, last_word_end)
                       nf == IF fl THEN nflush + 1 ELSE nflush
                   IN  /\ utterances' =
                            (IF fl THEN Flushed(utterances, cur) ELSE utterances)
                       /\ utt_buf' =
                            (IF fl /\ FlushEmits(cur)
                             THEN Append(utt_buf, nflush) ELSE utt_buf)
                       /\ nflush' = nf
                       /\ cur' = CurAfterPron(it, ranges, cur, last_word_end)
                       /\ last_word_end' = Some(en)
                       /\ idx' = idx + 1
                       /\ log' = Append(log,
                                   LogEntry(idx, "pron", label, st, en, nf))
                       /\ UNCHANGED <<pc, err>>
         ELSE /\ cur' = CurAfterPunct(it, cur)
              /\ idx' = idx + 1
              /\ log' = Append(log, LogEntry(idx, "punct", NoLabel, 0, 0, nflush))
              /\ UNCHANGED <<pc, err, utterances, last_word_end, nflush,
                             utt_buf>>
  /\ UNCHANGED <<doc, items, kept_idx, unique_items, ranges, recon_out>>
  /\ UNCHANGED handlerVars
  /\ UNCHANGED coVars
  /\ UNCHANGED serviceVars

\* Lines 201-202: the last _flush() and the return.
FinalFlush ==
  /\ pc = "loop"
  /\ idx > Len(unique_items)
  /\ utterances' = Flushed(utterances, cur)
  /\ utt_buf' = (IF FlushEmits(cur) THEN Append(utt_buf, nflush) ELSE utt_buf)
  /\ recon_out' = Flushed(utterances, cur)
  /\ nflush' = nflush + 1
  /\ cur' = EmptyCur
  /\ pc' = "returned"
  /\ UNCHANGED <<doc, err, items, kept_idx, unique_items, ranges,
                 last_word_end, idx, log>>
  /\ UNCHANGED handlerVars
  /\ UNCHANGED coVars
  /\ UNCHANGED serviceVars

InitRecon ==
  /\ doc \in ReconDocs
  /\ InitRun

NextRecon == Harvest \/ Dedup \/ Ranges \/ Step \/ FinalFlush

\* reconstruct_utterances_with_timestamps on its own.
SpecRecon == InitRecon /\ [][NextRecon]_vars

\* ----------------------------------------------------------- lambda_handler
\* The model of the handler starts where the transcript has been loaded
\* (doc); the two put_object calls are taken to succeed.
TXT_KEY == "diarized-transcription/<base>_diarized.txt"
JSONL_KEY == "diarized-transcription/<base>_diarized.jsonl"

\* Mutant: an empty reconstruction is passed on to the renderers.
CheckUtterancesNoRaise ==
  /\ pc = "returned"
  /\ pc' = "build_raw"
  /\ UNCHANGED <<doc, err>>
  /\ UNCHANGED reconVars
  /\ UNCHANGED handlerVars
  /\ UNCHANGED coVars
  /\ UNCHANGED serviceVars

\* Lines 393-394: an empty reconstruction is an error.
CheckUtterances ==
  /\ pc = "returned"
  /\ IF utterances = <<>>
     THEN Raise("ValueError")
     ELSE pc' = "build_raw" /\ UNCHANGED err
  /\ UNCHANGED doc
  /\ UNCHANGED reconVars
  /\ UNCHANGED handlerVars
  /\ UNCHANGED coVars
  /\ UNCHANGED serviceVars

\* Line 397.
BuildRaw ==
  /\ pc = "build_raw"
  /\ raw_for_bedrock' = build_raw_for_bedrock(utterances)
  /\ pc' = "oracle"
  /\ UNCHANGED <<doc, err, reply, speaker_map, coalesced_for_txt, final_txt,
                 final_jsonl, s3>>
  /\ UNCHANGED reconVars
  /\ UNCHANGED coVars
  /\ UNCHANGED serviceVars

FailureKinds == {"client_error", "other_error", "no_json", "bad_json"}

\* Mappings the oracle may answer with.
ReplyMaps ==
  {EmptyMap,
   [l \in {"spk_0"} |-> "Chair"],
   [l \in {"spk_0", "spk_1"} |->
      IF l = "spk_0" THEN "Chair" ELSE UNKNOWN_SPEAKER]}

OracleReplies ==
  {[kind |-> k, map |-> EmptyMap] : k \in FailureKinds}
    \cup {[kind |-> "json", map |-> m] : m \in ReplyMaps}

\* Line 400: the call of the naming oracle, whatever it answers.
CallOracle ==
  /\ pc = "oracle"
  /\ \E r \in OracleReplies :
       LET res == get_speaker_map_via_bedrock(r)
       IN  /\ reply' = r
           /\ IF res.raised
              THEN Raise("Exception") /\ UNCHANGED speaker_map
              ELSE /\ speaker_map' = res.map
                   /\ pc' = "coalesce"
                   /\ UNCHANGED err
  /\ UNCHANGED <<doc, raw_for_bedrock, coalesced_for_txt, final_txt,
                 final_jsonl, s3>>
  /\ UNCHANGED reconVars
  /\ UNCHANGED coVars
  /\ UNCHANGED serviceVars

\* Line 403: coalesce_utterances(utterances, gap_seconds=None).
Coalesce ==
  /\ pc = "coalesce"
  /\ coalesced_for_txt' = coalesce_utterances(utterances, None)
  /\ utterances' = ArgAfterCoalesce(utterances, None)
  /\ pc' = "format_txt"
  /\ UNCHANGED <<doc, err, items, kept_idx, unique_items, ranges, cur,
                 last_word_end, idx, log, nflush, utt_buf, recon_out>>
  /\ UNCHANGED <<raw_for_bedrock, reply, speaker_map, final_txt, final_jsonl,
                 s3>>
  /\ UNCHANGED coVars
  /\ UNCHANGED serviceVars

\* Line 406.
FormatTxt ==
  /\ pc = "format_txt"
  /\ final_txt' =
       format_diarized_lines_no_ts(coalesced_for_txt, speaker_map, BLANK_LINES)
  /\ pc' = "to_jsonl"
  /\ UNCHANGED <<doc, err, raw_for_bedrock, reply, speaker_map,
                 coalesced_for_txt, final_jsonl, s3>>
  /\ UNCHANGED reconVars
  /\ UNCHANGED coVars
  /\ UNCHANGED serviceVars

\* Mutant: the record stream is rendered from the coalesced list.
ToJsonlFromCoalesced ==
  /\ pc = "to_jsonl"
  /\ final_jsonl' = utterances_to_jsonl(coalesced_for_txt, speaker_map)
  /\ pc' = "put_txt"
  /\ UNCHANGED <<doc, err, raw_for_bedrock, reply, speaker_map,
                 coalesced_for_txt, final_txt, s3>>
  /\ UNCHANGED reconVars
  /\ UNCHANGED coVars
  /\ UNCHANGED serviceVars

\* Line 409.
ToJsonl ==
  /\ pc = "to_jsonl"
  /\ final_jsonl' = utterances_to_jsonl(utterances, speaker_map)
  /\ pc' = "put_txt"
  /\ UNCHANGED <<doc, err, raw_for_bedrock, reply, speaker_map,
                 coalesced_for_txt, final_txt, s3>>
  /\ UNCHANGED reconVars
  /\ UNCHANGED coVars
  /\ UNCHANGED serviceVars

\* Line 417.
PutTxt ==
  /\ pc = "put_txt"
  /\ s3' = s3 \cup {[key |-> TXT_KEY, body |-> final_txt]}
  /\ pc' = "put_jsonl"
  /\ UNCHANGED <<doc, err, raw_for_bedrock, reply, speaker_map,
                 coalesced_for_txt, final_txt, final_jsonl>>
  /\ UNCHANGED reconVars
  /\ UNCHANGED coVars
  /\ UNCHANGED serviceVars

\* Lines 418-432.
PutJsonl ==
  /\ pc = "put_jsonl"
  /\ s3' = s3 \cup {[key |-> JSONL_KEY, body |-> final_jsonl]}
  /\ pc' = "done"
  /\ UNCHANGED <<doc, err, raw_for_bedrock, reply, speaker_map,
                 coalesced_for_txt, final_txt, final_jsonl>>
  /\ UNCHANGED reconVars
  /\ UNCHANGED coVars
  /\ UNCHANGED serviceVars

\* Documents of the handler runs: words of two texts, one gap apart or not,
\* a comma and a line break, under each choice of speaker ranges.
HandlerToks ==
  {Pron(Num(s), Num(s), <<c>>, NoLabel) :
     s \in {0, MaxOff, GAP + MaxOff + 1}, c \in {"a", "b"}}
    \cup {Punct(<<",">>), Punct(<<"\n">>),
          Pron(Num(0), BadField, <<"a">>, NoLabel)}

HandlerDocs ==
  {ItemsDoc(its, sl[1], sl[2]) :
     its \in SeqsUpTo(HandlerToks, MaxItems), sl \in SpeakerLabelChoices}
    \cup BrokenDocs

Init ==
  /\ doc \in HandlerDocs
  /\ InitRun

Next ==
  \/ Harvest \/ Dedup \/ Ranges \/ Step \/ FinalFlush
  \/ CheckUtterances \/ BuildRaw \/ CallOracle \/ Coalesce
  \/ FormatTxt \/ ToJsonl \/ PutTxt \/ PutJsonl

\* One run of lambda_handler on a loaded transcript.
Spec == Init /\ [][Next]_vars

\* ------------------------------------------- coalesce_utterances on its own
Utt(lab, st, en, txt) ==
  [speaker_label |-> lab, start_time |-> st, end_time |-> en, text |-> txt]

\* Utterances in any time order, overlapping or not.
CoUtts ==
  {Utt(lab, st, en, txt) :
     lab \in {"spk_0", "spk_1"}, st \in 0..2, en \in {0, 2},
     txt \in {<<"a">>, <<"b", " ">>}}

CoGaps == {None, Some(1)}

InitCoalesce ==
  /\ doc = MkDoc(TRUE, FALSE, <<>>, TRUE, <<>>, FALSE, <<>>)
  /\ pc = "co_start"
  /\ utterances \in SeqsUpTo(CoUtts, MaxUtts)
  /\ co_in = utterances
  /\ co_gap \in CoGaps
  /\ InitLocals

\* merged = coalesce_utterances(utterances, co_gap)
CoalesceOnce ==
  /\ pc = "co_start"
  /\ co_out1' = coalesce_utterances(utterances, co_gap)
  /\ utterances' = ArgAfterCoalesce(utterances, co_gap)
  /\ pc' = "co_once"
  /\ UNCHANGED <<doc, err, items, kept_idx, unique_items, ranges, cur,
                 last_word_end, idx, log, nflush, utt_buf, recon_out>>
  /\ UNCHANGED handlerVars
  /\ UNCHANGED <<co_in, co_gap, co_out2>>
  /\ UNCHANGED serviceVars

\* coalesce_utterances(merged, co_gap)
CoalesceTwice ==
  /\ pc = "co_once"
  /\ co_out2' = coalesce_utterances(co_out1, co_gap)
  /\ co_out1' = ArgAfterCoalesce(co_out1, co_gap)
  /\ pc' = "co_twice"
  /\ UNCHANGED <<doc, err>>
  /\ UNCHANGED reconVars
  /\ UNCHANGED handlerVars
  /\ UNCHANGED <<co_in, co_gap>>
  /\ UNCHANGED serviceVars

NextCoalesce == CoalesceOnce \/ CoalesceTwice

SpecCoalesce == InitCoalesce /\ [][NextCoalesce]_vars

\* The diarizer is not running.
DiarizerIdle ==
  /\ doc = MkDoc(TRUE, FALSE, <<>>, TRUE, <<>>, FALSE, <<>>)
  /\ utterances = <<>>
  /\ co_in = <<>>
  /\ co_gap = None
  /\ InitDiarizerLocals

diarizerVars ==
  <<doc, reconVars, handlerVars, coVars>>

\* --------------------------------------- bedrock_router: lambda_handler
\* event['parameters'] when present: lists a Bedrock agent may send, one with
\* an empty value, one that names a parameter twice, one with a nameless entry.
ParameterLists ==
  { <<>>,
    << Param("committee_name", "Budget") >>,
    << Param("committee_name", "Budget"), Param("session", "2024") >>,
    << Param("committee_name", "Budget"), Param("session", "") >>,
    << Param("session", "2024"), Param("committee_name", "Budget"),
       Param("session", "2025") >>,
    << Param("committee_name", "Budget"), NamelessParam >> }

\* event['requestBody'] when present: wellformed is whether
\* ['content']['application/json']['properties'] can be reached.
RequestBodies ==
  { [wellformed |-> FALSE, properties |-> <<>>],
    [wellformed |-> TRUE,
     properties |-> << Param("committee_name", "Health"),
                       Param("session", "2024") >>],
    [wellformed |-> TRUE,
     properties |-> << Param("committee_name", "Health"), NamelessParam,
                       Param("session", "2024") >>] }

RouterEvents ==
  [actionGroup : {Some("g")},
   apiPath : {None, Some(""), Some("/start")},
   httpMethod : {Some("POST")},
   parameters : {None} \cup {Some(l) : l \in ParameterLists},
   requestBody : {None} \cup {Some(b) : b \in RequestBodies}]

\* for p in entries: d[p['name']] = p['value'], stopping at the KeyError of
\* an entry without a name; d keeps what was set before it.
RECURSIVE SetAll(_, _)
SetAll(entries, d) ==
  IF entries = <<>> THEN [d |-> d, ok |-> TRUE]
  ELSE IF Head(entries).name = None THEN [d |-> d, ok |-> FALSE]
  ELSE SetAll(Tail(entries),
              DictSet(d, Head(entries).name[1], Head(entries).value))

\* Lines 31-37: the request body is read only when params is still empty,
\* and whatever goes wrong while reading it is swallowed.
ParamsFromBody(ev) ==
  IF ev.requestBody = None THEN EmptyDict
  ELSE IF ~ev.requestBody[1].wellformed THEN EmptyDict
  ELSE SetAll(ev.requestBody[1].properties, EmptyDict).d

\* Lines 17-37.
RouterExtract ==
  /\ pc = "rt_extract"
  /\ LET listed == IF event.parameters = None
                   THEN [d |-> EmptyDict, ok |-> TRUE]
                   ELSE SetAll(event.parameters[1], EmptyDict)
     IN IF ~listed.ok
        THEN Raise("KeyError") /\ UNCHANGED params
        ELSE /\ params' = IF listed.d = EmptyDict
                          THEN ParamsFromBody(event)
                          ELSE listed.d
             /\ pc' = "rt_route"
             /\ UNCHANGED err
  /\ UNCHANGED <<event, STATE_MACHINE_ARN, status_code, response_data,
                 sfn_calls, final_response>>
  /\ UNCHANGED fetcherVars
  /\ UNCHANGED diarizerVars

committee_of(d) == DictGet(d, "committee_name")
session_of(d) == DictGet(d, "session")

\* not STATE_MACHINE_ARN
ArnUnset(arn) == arn = None \/ arn = Some("")

\* Lines 41-81; start_execution succeeds or raises.
RouterRoute ==
  /\ pc = "rt_route"
  /\ IF ~Truthy(committee_of(params)) \/ ~Truthy(session_of(params))
     THEN /\ response_data' = [kind |-> "missing", committee |-> NoValue]
          /\ status_code' = 400
          /\ UNCHANGED sfn_calls
     ELSE IF ArnUnset(STATE_MACHINE_ARN)
     THEN /\ response_data' = [kind |-> "no_arn", committee |-> NoValue]
          /\ status_code' = 500
          /\ UNCHANGED sfn_calls
     ELSE /\ sfn_calls' =
               Append(sfn_calls,
                      [stateMachineArn |-> STATE_MACHINE_ARN[1],
                       committee_name |-> committee_of(params),
                       session |-> session_of(params)])
          /\ \E started \in BOOLEAN :
               IF started
               THEN /\ response_data' =
                         [kind |-> "started",
                          committee |-> committee_of(params)]
                    /\ UNCHANGED status_code
               ELSE /\ response_data' =
                         [kind |-> "exception", committee |-> NoValue]
                    /\ status_code' = 500
  /\ pc' = "rt_respond"
  /\ UNCHANGED <<event, err, STATE_MACHINE_ARN, params, final_response>>
  /\ UNCHANGED fetcherVars
  /\ UNCHANGED diarizerVars

\* Lines 86-114. Line 103 reads function_name, which no line of the module
\* assigns: reaching it is a NameError.
RouterRespond ==
  /\ pc = "rt_respond"
  /\ LET api_path == GetOr(event.apiPath, "")
     IN IF api_path # ""
        THEN /\ final_response' =
                  Some([messageVersion |-> "1.0",
                        response |->
                          [actionGroup |-> GetOr(event.actionGroup, ""),
                           httpStatusCode |-> status_code,
                           responseBody |-> response_data,
                           apiPath |-> api_path,
                           httpMethod |-> GetOr(event.httpMethod, "")]])
             /\ pc' = "rt_returned"
             /\ UNCHANGED err
        ELSE Raise("NameError") /\ UNCHANGED final_response
  /\ UNCHANGED <<event, STATE_MACHINE_ARN, params, status_code,
                 response_data, sfn_calls>>
  /\ UNCHANGED fetcherVars
  /\ UNCHANGED diarizerVars

InitRouter ==
  /\ pc = "rt_extract"
  /\ event \in RouterEvents
  /\ STATE_MACHINE_ARN \in {None, Some("arn:sm")}
  /\ InitRouterLocals
  /\ FetcherIdle
  /\ DiarizerIdle

NextRouter == RouterExtract \/ RouterRoute \/ RouterRespond

\* One invocation of the router.
SpecRouter == InitRouter /\ [][NextRouter]_vars

\* ----------------------------------------- media_fetcher: lambda_handler
Chars(w) ==
  CASE w = "Senate" -> <<"S", "e", "n", "a", "t", "e">>
    [] w = "ASSEMBLY" -> <<"A", "S", "S", "E", "M", "B", "L", "Y">>
    [] w = "Joint" -> <<"J", "o", "i", "n", "t">>
    [] w = "Budget" -> <<"B", "u", "d", "g", "e", "t">>
    [] w = "Senate Joint" ->
         <<"S", "e", "n", "a", "t", "e", " ", "J", "o", "i", "n", "t">>
    [] w = "joint" -> <<"j", "o", "i", "n", "t">>
    [] w = "senate" -> <<"s", "e", "n", "a", "t", "e">>
    [] w = "assembly" -> <<"a", "s", "s", "e", "m", "b", "l", "y">>

\* Committee names as character sequences.
CommitteeNames ==
  {Chars(w) : w \in {"Senate", "ASSEMBLY", "Joint", "Budget", "Senate Joint"}}

\* str.lower() on one character.
LowerChar(c) ==
  CASE c = "A" -> "a" [] c = "B" -> "b" [] c = "E" -> "e" [] c = "J" -> "j"
    [] c = "L" -> "l" [] c = "M" -> "m" [] c = "S" -> "s" [] c = "Y" -> "y"
    [] OTHER -> c

Lower(s) == [i \in 1..Len(s) |-> LowerChar(s[i])]

\* pat in s
Contains(pat, s) ==
  \E i \in 1..(Len(s) - Len(pat) + 1) : SubSeq(s, i, i + Len(pat) - 1) = pat

determine_committee_folder(committee_name) ==
  LET name_lower == Lower(committee_name)
  IN IF Contains(Chars("joint"), name_lower) THEN "Joint"
     ELSE IF Contains(Chars("senate"), name_lower) THEN "Senate"
     ELSE IF Contains(Chars("assembly"), name_lower) THEN "Assembly"
     ELSE "Other"

BASE_URL == "https://5b73e41adb3b9.streamlock.net/archive/_definst_"

\* None when agenda_date_full does not parse.
build_stream_url(agenda_date_full, committee, agenda_type, original_av) ==
  IF agenda_date_full.k # "dt" THEN None
  ELSE LET file_part == agenda_date_full.mmdd \o "-" \o agenda_date_full.time
                          \o "-" \o agenda_type \o "0-1"
           media_path == IF original_av = "V"
                         THEN "smil:" \o file_part \o ".smil"
                         ELSE file_part \o ".m4a"
       IN Some(BASE_URL \o "/" \o agenda_date_full.year \o "/" \o committee
                 \o "/" \o media_path \o "/playlist.m3u8")

\* The query of a media link, as parse_qs reads it.
Hrefs ==
  [agendaDate : {NoAgendaDate, BadAgendaDate,
                 AgendaDate("2025", "1113", "0100PM")},
   av : {None, Some("A"), Some("V")},
   agendaType : {None, Some("M")}]

\* What setup_driver, committee_code, find_meeting_list_url and
\* select_media_link_with_fallback come back with: driver_ok is FALSE when one
\* of them raises; list_found is whether some year of years_to_try has a
\* meeting list; choice is the selected link and its meeting date.
Sites ==
  [driver_ok : BOOLEAN, code : {"SBA"}, list_found : BOOLEAN,
   choice : {None} \cup
            {Some([href |-> h, meeting_date |-> "2025-11-13"]) : h \in Hrefs}]

FetcherEvents ==
  [committee_name : {None, Some(<<>>)} \cup {Some(n) : n \in CommitteeNames},
   session : {None, Some(""), Some("2024-2025")}]

\* Objects the bucket may hold before the run.
BucketKeys ==
  {"audio/Senate/SBA_2025-11-13.mp3", "audio/Joint/SBA_2025-11-13.mp3"}

\* A returned dict: its statusCode and the message and skipped keys of its
\* body (skipped is FALSE when the body has no such key).
Reply(code, message, skipped) ==
  Some([statusCode |-> code, message |-> message, skipped |-> skipped])

Return(r) ==
  /\ fetched' = r
  /\ pc' = "mf_returned"

\* not x, for an event field holding None or a string ("" is empty, as a
\* character sequence or as a string)
Missing(field, empty) == field = None \/ field[1] = empty

\* Lines 396-433. The parsed body is not used; years_to_try only decides
\* which pages find_meeting_list_url asks the site for.
FetchValidate ==
  /\ pc = "mf_start"
  /\ IF Missing(event.committee_name, <<>>) \/ Missing(event.session, "")
     THEN Return(Reply(400,
                 "Missing required parameters: committee_name and session",
                 FALSE))
     ELSE pc' = "mf_browse" /\ UNCHANGED fetched
  /\ UNCHANGED <<event, err, site, bucket, media_url, s3_check_key,
                 final_output_file, downloads, uploads>>
  /\ UNCHANGED routerVars
  /\ UNCHANGED diarizerVars

\* Lines 459-475.
MediaUrlOf(choice, committee) ==
  LET qs == choice.href
      agenda_date_full == qs.agendaDate
      original_av == GetOr(qs.av, "A")
      agenda_type == GetOr(qs.agendaType, "M")
  IN IF agenda_date_full.k = "absent" THEN None
     ELSE build_stream_url(agenda_date_full, committee, agenda_type,
                           original_av)

\* Lines 435-477 and 535-553. Without a media_url the function runs off its
\* end and returns None.
FetchBrowse ==
  /\ pc = "mf_browse"
  /\ IF ~site.driver_ok
     THEN /\ Return(Reply(500, "An unexpected error occurred", FALSE))
          /\ UNCHANGED media_url
     ELSE IF ~site.list_found
     THEN /\ Return(Reply(404, "No valid meeting list page found", FALSE))
          /\ UNCHANGED media_url
     ELSE IF site.choice = None
     THEN /\ Return(Reply(404, "No media links found on the page", FALSE))
          /\ UNCHANGED media_url
     ELSE /\ media_url' = MediaUrlOf(site.choice[1], site.code)
          /\ IF media_url' = None
             THEN Return(None)
             ELSE pc' = "mf_check" /\ UNCHANGED fetched
  /\ UNCHANGED <<event, err, site, bucket, s3_check_key, final_output_file,
                 downloads, uploads>>
  /\ UNCHANGED routerVars
  /\ UNCHANGED diarizerVars

output_base_filename == site.code \o "_" \o site.choice[1].meeting_date

\* s3_client is assigned at line 505, inside lambda_handler, and the module
\* has no global of that name: it is a local of the function, still unbound
\* when line 485 reads it.
S3ClientBoundAtCheck == FALSE

\* Line 485, s3_client.head_object(Bucket, Key): "exists" when it returns,
\* "raises" when it raises (an unbound s3_client, or no such object).
head_object(b, key) ==
  IF ~S3ClientBoundAtCheck THEN "raises"
  ELSE IF key \in b THEN "exists"
  ELSE "raises"

\* Lines 478-492.
FetchCheckExisting ==
  /\ pc = "mf_check"
  /\ LET subfolder == determine_committee_folder(event.committee_name[1])
     IN s3_check_key' =
          "audio/" \o subfolder \o "/" \o output_base_filename \o ".mp3"
  /\ IF head_object(bucket, s3_check_key') = "exists"
     THEN Return(Reply(200, "Meeting already processed", TRUE))
     ELSE pc' = "mf_download" /\ UNCHANGED fetched
  /\ UNCHANGED <<event, err, site, bucket, media_url, final_output_file,
                 downloads, uploads>>
  /\ UNCHANGED routerVars
  /\ UNCHANGED diarizerVars

\* Lines 494-500 and 530-534; download_with_ffmpeg returns the path of the
\* file it made, /tmp/<base>.mp3, or None.
FetchDownload ==
  /\ pc = "mf_download"
  /\ downloads' = Append(downloads, media_url[1])
  /\ \E made \in BOOLEAN :
       IF made
       THEN /\ final_output_file' =
                 Some([dir |-> "/tmp",
                       name |-> output_base_filename \o ".mp3"])
            /\ pc' = "mf_upload"
            /\ UNCHANGED fetched
       ELSE /\ Return(Reply(500, "Download failed (no file created)", FALSE))
            /\ UNCHANGED final_output_file
  /\ UNCHANGED <<event, err, site, bucket, media_url, s3_check_key, uploads>>
  /\ UNCHANGED routerVars
  /\ UNCHANGED diarizerVars

\* Lines 501-528; upload_file succeeds or raises.
FetchUpload ==
  /\ pc = "mf_upload"
  /\ LET subfolder == determine_committee_folder(event.committee_name[1])
         filename == final_output_file[1].name
         s3_key == "audio/" \o subfolder \o "/" \o filename
     IN /\ uploads' = Append(uploads, s3_key)
        /\ \E uploaded \in BOOLEAN :
             IF uploaded
             THEN Return(Reply(200, "Download and Upload successful", FALSE))
             ELSE Return(Reply(500, "S3 Upload failed", FALSE))
  /\ UNCHANGED <<event, err, site, bucket, media_url, s3_check_key,
                 final_output_file, downloads>>
  /\ UNCHANGED routerVars
  /\ UNCHANGED diarizerVars

InitFetcher ==
  /\ pc = "mf_start"
  /\ event \in FetcherEvents
  /\ site \in Sites
  /\ bucket \in SUBSET BucketKeys
  /\ InitFetcherLocals
  /\ RouterIdle
  /\ DiarizerIdle

NextFetcher ==
  \/ FetchValidate \/ FetchBrowse \/ FetchCheckExisting
  \/ FetchDownload \/ FetchUpload

\* One invocation of the media fetcher.
SpecFetcher == InitFetcher /\ [][NextFetcher]_vars

\* =================================================================== claims
\* Closed intervals [start_time, end_time] of two utterances meet.
Overlap(u, v) == u.start_time <= v.end_time /\ v.start_time <= u.end_time

StrictlyByStart(utts) ==
  \A i \in 1..(Len(utts) - 1) : utts[i].start_time < utts[i + 1].start_time

NoSameSpeakerOverlap(utts) ==
  \A i, j \in 1..Len(utts) :
    (i < j /\ utts[i].speaker_label = utts[j].speaker_label)
      => ~Overlap(utts[i], utts[j])

\* The pronunciation tokens the loop processes, in order.
IsLoopPron(it) == ~LoopSkips(it) /\ IsPron(it)
LoopProns(its) == SelectSeq(its, IsLoopPron)

\* Each such token has start <= end, starts after the previous one starts
\* and not before the previous one ends.
InTimeOrder(ps) ==
  /\ \A i \in 1..Len(ps) :
       FloatOf(ps[i].start_time, 0) <= FloatOf(ps[i].end_time, 0)
  /\ \A i \in 1..(Len(ps) - 1) :
       /\ FloatOf(ps[i].start_time, 0) < FloatOf(ps[i + 1].start_time, 0)
       /\ FloatOf(ps[i].end_time, 0) <= FloatOf(ps[i + 1].start_time, 0)

\* C1 as stated: for every accepted document the returned utterances are
\* strictly increasing in start_time and no two utterances of one speaker
\* have overlapping [start_time, end_time] intervals.
C1_AllInputsOrdered ==
  pc = "returned" =>
    StrictlyByStart(utterances) /\ NoSameSpeakerOverlap(utterances)

\* C1 amended: when the pronunciation tokens that reach the segmentation
\* loop are in time order (start <= end, each starting after the previous
\* one starts and not before it ends), the returned utterances are strictly
\* increasing in start_time and no two of one speaker overlap.
C1_OrderedWhenTokensOrdered ==
  (pc = "returned" /\ InTimeOrder(LoopProns(unique_items))) =>
    StrictlyByStart(utterances) /\ NoSameSpeakerOverlap(utterances)

\* C1 witness: tokens in time order gave two utterances of one speaker.
C1_Witness ==
  /\ pc = "returned"
  /\ InTimeOrder(LoopProns(unique_items))
  /\ \E i, j \in 1..Len(utterances) :
       i < j /\ utterances[i].speaker_label = utterances[j].speaker_label

\* Log entries a < b of two consecutive pronunciation tokens (punctuation and
\* skipped items may lie between) that resolved to one non-null label.
ConsecutiveSameSpeaker(a, b) ==
  /\ a < b
  /\ log[a].kind = "pron"
  /\ log[b].kind = "pron"
  /\ \A m \in (a + 1)..(b - 1) : log[m].kind # "pron"
  /\ log[a].label = log[b].label
  /\ Truthy(log[a].label)

EmittedBuffers == {utt_buf[k] : k \in 1..Len(utt_buf)}

\* C2: two consecutive pronunciation tokens of one non-null speaker land in
\* different utterances iff the second starts more than gap_seconds after
\* the first ends (a gap equal to gap_seconds does not split); each of the
\* two buffers is emitted as an utterance by the time the function returns.
C2_GapSplitsIff ==
  \A a, b \in 1..Len(log) :
    ConsecutiveSameSpeaker(a, b) =>
      /\ (log[a].buf # log[b].buf) <=> (log[b].st - log[a].en > GAP)
      /\ pc = "returned" => {log[a].buf, log[b].buf} \subseteq EmittedBuffers

\* C2 witness: one run with a pause of exactly gap_seconds inside one
\* utterance and a pause one millisecond longer between two utterances.
C2_Witness ==
  /\ pc = "returned"
  /\ \E a, b \in 1..Len(log) :
       /\ ConsecutiveSameSpeaker(a, b)
       /\ log[b].st - log[a].en = GAP
       /\ log[a].buf = log[b].buf
  /\ \E a, b \in 1..Len(log) :
       /\ ConsecutiveSameSpeaker(a, b)
       /\ log[b].st - log[a].en = GAP + 1
       /\ log[a].buf # log[b].buf

\* The deduplication scan has run.
DedupDone == pc \notin {"harvest", "dedup"}

KeptSet == {kept_idx[k] : k \in 1..Len(kept_idx)}

\* The last item retained before item i (i >= 2, item 1 retained).
LastRetainedBefore(i) ==
  CHOOSE r \in KeptSet : r < i /\ \A q \in KeptSet : q < i => q <= r

\* The token carries both fields the comparison reads.
FieldsPresent(it) == it.start_time.k # "absent" /\ it.alts # "absent"

\* Both start times are numbers no more than 0.001 s apart.
StartsWithinEps(x, y) ==
  /\ x.start_time.k = "num"
  /\ y.start_time.k = "num"
  /\ Abs(y.start_time.v - x.start_time.v) <= EPS

\* Both tokens have a first alternative that is an object, with equal content.
SameText(x, y) == x.alts = "ok" /\ y.alts = "ok" /\ x.content = y.content

\* C3: the scan keeps the first token; a later token whose fields, and those
\* of the last retained token, are present is dropped iff its start time is
\* within 0.001 s of the last RETAINED token's and the texts are equal; the
\* output is an order-preserving subsequence of the input.
C3_DedupRule ==
  DedupDone =>
    /\ \A k \in 1..(Len(kept_idx) - 1) : kept_idx[k] < kept_idx[k + 1]
    /\ KeptSet \subseteq 1..Len(items)
    /\ unique_items = Pick(items, kept_idx)
    /\ items # <<>> => 1 \in KeptSet
    /\ \A i \in 2..Len(items) :
         LET r == LastRetainedBefore(i)
         IN  (FieldsPresent(items[r]) /\ FieldsPresent(items[i])) =>
               ((i \notin KeptSet) <=>
                  (StartsWithinEps(items[r], items[i])
                     /\ SameText(items[r], items[i])))

\* C3 witness: "a" at 0, 1 and 2 ms: the second is dropped against the
\* first, the third is kept because the first is the last one retained.
C3_Witness ==
  /\ DedupDone
  /\ Len(items) = 3
  /\ kept_idx = <<1, 3>>
  /\ \A i \in 1..3 :
       /\ FieldsPresent(items[i])
       /\ items[i].alts = "ok"
       /\ items[i].start_time = Num(i - 1)
       /\ items[i].content = items[1].content

\* A field the comparison reads is missing or unparseable.
FieldMissingOrBad(it) ==
  it.start_time.k \in {"absent", "bad"} \/ it.alts # "ok"

\* C4 as stated: a token whose start_time or text is missing or unparseable,
\* or that is compared with a last retained token of which that is true, is
\* kept by the deduplication scan.
C4_KeptWhenFieldMissing ==
  DedupDone =>
    \A i \in 2..Len(items) :
      (FieldMissingOrBad(items[i])
         \/ FieldMissingOrBad(items[LastRetainedBefore(i)]))
        => i \in KeptSet

\* ------------------------------------------------------------ channel mode
\* The tokens harvested from the channels, before the sort.
Harvested == OnlyDicts(ConcatAll(doc.channels))

MergedFromChannels ==
  /\ doc.results_is_dict
  /\ doc.has_channel_labels
  /\ pc \notin {"harvest", "raised"}

RECURSIVE DictsUpTo(_)
DictsUpTo(c) ==
  IF c = 0 THEN 0 ELSE DictsUpTo(c - 1) + Len(OnlyDicts(doc.channels[c]))

\* The channel the i-th harvested token came from.
ChanOf(i) ==
  CHOOSE c \in 1..Len(doc.channels) : DictsUpTo(c - 1) < i /\ i <= DictsUpTo(c)

\* Same numeric start_time, same text.
SameToken(x, y) ==
  /\ x.start_time.k = "num"
  /\ x.start_time = y.start_time
  /\ SameText(x, y)

\* Harvested token i has a copy in another channel.
InTwoChannels(i) ==
  \E j \in 1..Len(Harvested) :
    ChanOf(j) # ChanOf(i) /\ SameToken(Harvested[i], Harvested[j])

CopiesIn(its, t) == {k \in 1..Len(its) : SameToken(t, its[k])}

\* C5 as stated: a token that occurs in two channels is in the merged and
\* deduplicated stream exactly once.
C5_DuplicateKeptOnce ==
  (MergedFromChannels /\ DedupDone) =>
    \A i \in 1..Len(Harvested) :
      InTwoChannels(i) =>
        Cardinality(CopiesIn(unique_items, Harvested[i])) = 1

PermsOf(n) ==
  {f \in [1..n -> 1..n] : \A a, b \in 1..n : f[a] = f[b] => a = b}

\* Each channel's timed tokens are in non-decreasing start_time order.
ChannelsInTimeOrder ==
  \A a, b \in 1..Len(Harvested) :
    (a < b /\ ChanOf(a) = ChanOf(b)
       /\ Harvested[a].start_time.k = "num"
       /\ Harvested[b].start_time.k = "num")
      => Harvested[a].start_time.v <= Harvested[b].start_time.v

\* C6 as stated: the merged sequence is a stable chronological interleaving
\* of the channels: timed tokens are in non-decreasing start_time order, ties
\* in input order, and two tokens of one channel (punctuation included)
\* keep the relative order they had in that channel.
C6_StableInterleaving ==
  (MergedFromChannels /\ ChannelsInTimeOrder) =>
    \E f \in PermsOf(Len(Harvested)) :
      /\ items = Pick(Harvested, f)
      /\ \A p, q \in 1..Len(items) :
           p < q =>
             /\ (items[p].start_time.k = "num" /\ items[q].start_time.k = "num")
                  => items[p].start_time.v <= items[q].start_time.v
             /\ (items[p].start_time = items[q].start_time) => f[p] < f[q]
             /\ (ChanOf(f[p]) = ChanOf(f[q])) => f[p] < f[q]

\* ----------------------------------------------------- coalescing, claims
\* Utterance i of the list continues the entry accumulated so far: that
\* entry carries the label and the end_time of utterance i - 1.
Continues(u, i, g) ==
  /\ u[i].speaker_label = u[i - 1].speaker_label
  /\ (g = None \/ u[i].start_time - u[i - 1].end_time <= g[1])

\* Indices at which a fresh entry starts.
Starts(u, g) == {i \in 1..Len(u) : i = 1 \/ ~Continues(u, i, g)}

\* The k-th smallest element of a set of numbers.
Nth(S, k) == CHOOSE x \in S : Cardinality({y \in S : y < x}) = k - 1

\* Last index of the run that starts at b.
RunEnd(u, g, b) ==
  CHOOSE e \in b..Len(u) :
    /\ \A i \in (b + 1)..e : i \notin Starts(u, g)
    /\ (e = Len(u) \/ (e + 1) \in Starts(u, g))

\* Texts b..e joined: a single space before each incoming text unless what
\* is accumulated is empty or ends in whitespace.
RECURSIVE RunText(_, _, _)
RunText(u, b, e) ==
  IF e = b THEN u[b].text
  ELSE LET acc == RunText(u, b, e - 1)
       IN  IF acc = <<>> \/ acc[Len(acc)] \in {" ", "\n"}
           THEN acc \o u[e].text
           ELSE acc \o <<" ">> \o u[e].text

CoalesceRan == pc \in {"co_once", "co_twice"}

\* C7: coalescing is idempotent under every gap policy:
\* coalesce(coalesce(u, g), g) = coalesce(u, g).
C7_CoalesceIdempotent == pc = "co_twice" => co_out2 = co_out1

\* C7 witness: with a numeric gap, out-of-order utterances of one speaker
\* where a merge lowered end_time and a later utterance stayed separate.
C7_Witness ==
  /\ pc = "co_twice"
  /\ co_gap # None
  /\ Len(co_in) = 3
  /\ Len(co_out1) = 2
  /\ co_out1[1].end_time < co_in[1].end_time
  /\ co_out1[2].speaker_label = co_out1[1].speaker_label

\* C8: the result is the left fold: one entry per run of utterances each of
\* which has the previous one's label and, under a numeric gap, starts no
\* more than the gap after the accumulated end_time; an entry keeps the
\* run's first start_time, takes the run's last end_time and joins the texts
\* with the single-space rule.
C8_CoalesceFoldsLeft ==
  CoalesceRan =>
    /\ Len(co_out1) = Cardinality(Starts(co_in, co_gap))
    /\ \A k \in 1..Len(co_out1) :
         LET b == Nth(Starts(co_in, co_gap), k)
             e == RunEnd(co_in, co_gap, b)
         IN  /\ co_out1[k].speaker_label = co_in[b].speaker_label
             /\ co_out1[k].start_time = co_in[b].start_time
             /\ co_out1[k].end_time = co_in[e].end_time
             /\ co_out1[k].text = RunText(co_in, b, e)

\* C8 witness: under a numeric gap, two utterances merged with a space put
\* between their texts, and a third appended as a fresh entry.
C8_Witness ==
  /\ pc = "co_once"
  /\ co_gap # None
  /\ Len(co_in) = 3
  /\ Len(co_out1) = 2
  /\ co_out1[1].text = <<"a", " ", "b", " ">>
  /\ co_out1[1].end_time # co_in[1].end_time

\* ------------------------------------------------------ renderers, claims
\* Lines of a rendered string: the runs of atoms between "\n" atoms.
RECURSIVE SplitLines(_, _)
SplitLines(atoms, line) ==
  IF atoms = <<>> THEN <<line>>
  ELSE IF Head(atoms) = "\n"
       THEN <<line>> \o SplitLines(Tail(atoms), <<>>)
       ELSE SplitLines(Tail(atoms), Append(line, Head(atoms)))

LinesOf(atoms) == IF atoms = <<>> THEN <<>> ELSE SplitLines(atoms, <<>>)

\* Values a record can hold.
KnownTimes == 0..2 \cup Times \cup {t + 1 : t \in Times}
KnownLabels == {"spk_0", "spk_1", ""}

\* json.loads of a number, of a string, of a character of a string.
ParseNum(a) == CHOOSE n \in KnownTimes : ToString(n) = a
ParseStr(a) == CHOOSE l \in KnownLabels : JsonStr(l) = a
ParseChar(a) == IF a = "\\n" THEN "\n" ELSE a

\* A row of the record stream has the fields in the renderer's order.
WellFormedRow(row) ==
  /\ Len(row) >= 13
  /\ row[1] = "{" /\ row[Len(row)] = "}"
  /\ row[2] = "start_time" /\ row[4] = "end_time"
  /\ row[6] = "speaker_label" /\ row[8] = "speaker_name"
  /\ row[10] = "text" /\ row[11] = "\"" /\ row[Len(row) - 1] = "\""

\* The (speaker_label, start_time, end_time, text) a row parses to.
ParseRow(row) ==
  [speaker_label |-> ParseStr(row[7]),
   start_time |-> ParseNum(row[3]),
   end_time |-> ParseNum(row[5]),
   text |-> [k \in 1..(Len(row) - 13) |-> ParseChar(row[11 + k])]]

Rendered == pc \in {"put_txt", "put_jsonl", "done"}

\* C9: the record stream has one line per utterance reconstruct returned,
\* in order, and each line parses back to that utterance's
\* (speaker_label, start_time, end_time, text).
C9_JsonlRoundTrip ==
  Rendered =>
    LET rows == LinesOf(final_jsonl)
    IN  /\ Len(rows) = Len(recon_out)
        /\ \A k \in 1..Len(rows) :
             WellFormedRow(rows[k]) /\ ParseRow(rows[k]) = recon_out[k]

\* C9 witness: two utterances of one speaker, the first ending in
\* punctuation, which coalescing merges into one block for the text output.
C9_Witness ==
  /\ pc = "done"
  /\ Len(recon_out) = 2
  /\ Len(coalesced_for_txt) = 1
  /\ recon_out[1].text = <<"a", ",">>
  /\ Len(LinesOf(final_jsonl)) = 2

\* Names of the blocks of the human-readable text: the atom after each "**".
BlockNames(txt) ==
  {txt[p + 1] : p \in {q \in 1..(Len(txt) - 1) : txt[q] = "**"}}

WrittenBodies(key) == {o.body : o \in {x \in s3 : x.key = key}}

\* C10: after any failure of the naming oracle the mapping is empty and the
\* run does not raise; it ends with both objects written, every block of the
\* text named "[UNKNOWN SPEAKER]" and every record with speaker_name null.
C10_OracleFailureDegrades ==
  reply.kind \in FailureKinds =>
    /\ pc # "raised"
    /\ DOMAIN speaker_map = {}
    /\ pc = "done" =>
         /\ WrittenBodies(TXT_KEY) = {final_txt}
         /\ WrittenBodies(JSONL_KEY) = {final_jsonl}
         /\ BlockNames(final_txt) = {UNKNOWN_SPEAKER}
         /\ Len(LinesOf(final_jsonl)) = Len(recon_out)
         /\ \A k \in 1..Len(LinesOf(final_jsonl)) :
              LinesOf(final_jsonl)[k][9] = JsonNull

\* C10 witness: the oracle's reply did not parse, and the run ended with two
\* objects written for a transcript of two speakers.
C10_Witness ==
  /\ pc = "done"
  /\ reply.kind = "bad_json"
  /\ Cardinality(s3) = 2
  /\ Len(coalesced_for_txt) = 2

\* ------------------------------------------------- missing labels, claims
\* The entries of the document's token source, before any filtering.
SourceTokens ==
  IF doc.has_channel_labels THEN ConcatAll(doc.channels) ELSE doc.items

\* results is an object holding items or channel_labels.
UsableSource ==
  doc.results_is_dict /\ (doc.has_channel_labels \/ doc.has_items)

\* No speaker_labels section, and no token with an inline label.
NoLabelsAnywhere ==
  /\ ~doc.has_speaker_labels
  /\ \A i \in 1..Len(SourceTokens) : ~Truthy(SourceTokens[i].speaker_label)

\* Every timing field of a token is absent or numeric.
TokenTimesParse ==
  \A i \in 1..Len(SourceTokens) :
    SourceTokens[i].isdict =>
      /\ ~FloatRaises(SourceTokens[i].start_time)
      /\ ~FloatRaises(SourceTokens[i].end_time)

\* C11: with no speaker_labels section and no inline label on any token (of
\* a document with a token source and parseable token times), reconstruct
\* raises nothing, no flush emits, the buffer's label stays null, and the
\* list returned is empty.
C11_NoLabelsNoUtterances ==
  (UsableSource /\ NoLabelsAnywhere /\ TokenTimesParse) =>
    /\ pc # "raised"
    /\ utterances = <<>>
    /\ utt_buf = <<>>
    /\ cur.speaker_label = NoLabel
    /\ (pc = "returned" => recon_out = <<>>)

\* C11 witness: a run without labels returned after two words a long silence
\* apart: the flush at the silence and the final flush both discarded a
\* buffer that held text.
C11_Witness ==
  /\ pc = "returned"
  /\ UsableSource /\ NoLabelsAnywhere
  /\ nflush = 2
  /\ \E i \in 1..Len(log) : log[i].kind = "pron" /\ log[i].buf = 1
  /\ \E i \in 1..Len(log) : log[i].kind = "pron" /\ log[i].buf = 0
  /\ recon_out = <<>>

\* ------------------------------------------------- fatal errors, claims
\* Every timing field of a speaker range is absent or numeric.
SegTimesParse ==
  doc.has_speaker_labels =>
    \A i \in 1..Len(doc.segments) :
      doc.segments[i].isdict =>
        /\ ~FloatRaises(doc.segments[i].start_time)
        /\ ~FloatRaises(doc.segments[i].end_time)

\* reconstruct returned (its last _flush ran) and the list was empty.
ReturnedEmpty == idx > Len(unique_items) /\ nflush > 0 /\ recon_out = <<>>

AfterCheck ==
  pc \in {"build_raw", "oracle", "coalesce", "format_txt", "to_jsonl",
          "put_txt", "put_jsonl", "done"}

\* C12 as stated: a run on a document that has a token source and parseable
\* times but no speaker label anywhere does not raise.
C12_DegradedInputCompletes ==
  (UsableSource /\ NoLabelsAnywhere /\ TokenTimesParse) => pc # "raised"

\* C12 amended: the handler raises because of the document when it has no
\* token source, when a time field is not numeric, or when reconstruction
\* returned no utterances; a document without any speaker label makes it
\* raise ValueError after reconstruct returned the empty list, nothing
\* having been written.
C12_RaisesOnEmptyReconstruction ==
  /\ pc = "raised" =>
       \/ ~UsableSource
       \/ ~TokenTimesParse
       \/ ~SegTimesParse
       \/ ReturnedEmpty
  /\ (UsableSource /\ NoLabelsAnywhere /\ TokenTimesParse) =>
       /\ ~AfterCheck
       /\ pc = "raised" => (err = "ValueError" /\ ReturnedEmpty /\ s3 = {})

\* C12 witness: a document without speaker labels, two words a long silence
\* apart: reconstruct returned the empty list and the handler raised.
C12_Witness ==
  /\ pc = "raised"
  /\ UsableSource /\ NoLabelsAnywhere /\ TokenTimesParse
  /\ err = "ValueError"
  /\ ReturnedEmpty
  /\ nflush = 2
  /\ Len(log) = 2
  /\ s3 = {}

\* C13: when results is not an object, or holds neither items nor
\* channel_labels, the run goes from the harvest straight to the raised
\* exception (TypeError, ValueError), which leaves the handler, and no
\* object is written.
C13_StructuralErrorIsFatal ==
  ~UsableSource =>
    /\ pc \in {"harvest", "raised"}
    /\ s3 = {}
    /\ recon_out = <<>>
    /\ pc = "raised" =>
         err = (IF doc.results_is_dict THEN "ValueError" ELSE "TypeError")

\* C13 witness: a document with speaker ranges but no token source: the run
\* has raised ValueError with nothing written.
C13_Witness ==
  /\ pc = "raised"
  /\ doc.results_is_dict /\ ~doc.has_items /\ ~doc.has_channel_labels
  /\ doc.has_speaker_labels
  /\ err = "ValueError"
  /\ s3 = {}

\* C14 as stated: a document with a token source never makes reconstruct
\* raise, whatever malformed tokens or ranges it holds.
C14_MalformedNeverRaises == UsableSource => pc # "raised"

\* C15 as stated: every utterance reconstruct has emitted has a non-null,
\* non-empty speaker_label and a non-empty text.
C15_UtterancesLabelledAndNonEmpty ==
  \A k \in 1..Len(utterances) :
    /\ Truthy(utterances[k].speaker_label)
    /\ utterances[k].text # <<>>

\* ------------------------------------------------- speaker lookup, claims
\* The loop is about to process a pronunciation token that has no inline
\* label and whose times parse.
AtLookup ==
  /\ pc = "loop"
  /\ idx <= Len(unique_items)
  /\ ~LoopSkips(unique_items[idx])
  /\ IsPron(unique_items[idx])
  /\ ~PronRaises(unique_items[idx])
  /\ ~Truthy(unique_items[idx].speaker_label)

\* Range i holds time t: start <= t < end.
Holds(i, t) == ranges[i][1] <= t /\ t < ranges[i][2]

\* C16: a pronunciation token without an inline label gets the label of the
\* first range, in the order of the list, with start <= t < end (t equal to
\* the end does not match); when no range matches it gets the label the
\* buffer had before the token (None when no speaker has been established).
C16_FirstMatchOrFallback ==
  [][(AtLookup /\ idx' = idx + 1) =>
       LET t == FloatOf(unique_items[idx].start_time, 0)
       IN  IF \E i \in 1..Len(ranges) : Holds(i, t)
           THEN \E i \in 1..Len(ranges) :
                  /\ Holds(i, t)
                  /\ \A j \in 1..(i - 1) : ~Holds(j, t)
                  /\ cur'.speaker_label = ranges[i][3]
           ELSE cur'.speaker_label = cur.speaker_label]_vars

\* C16 witness: the range listed first, [0, 2) of spk_0, won at t = 0 over
\* the narrower [0, 1) listed after it, and a word at t = 2, the end of the
\* range, matched nothing and took the buffer's label.
C16_Witness ==
  /\ pc = "returned"
  /\ ranges = << <<0, 2, "spk_0">>, <<0, 1, "">> >>
  /\ Len(log) = 2
  /\ log[1].kind = "pron" /\ log[1].st = 0 /\ log[1].label = "spk_0"
  /\ log[2].kind = "pron" /\ log[2].st = 2 /\ log[2].label = "spk_0"

\* ------------------------------------------------------ three views, claims
\* Positions of the "[" that opens each line of the compact view.
CompactMarks(raw) == {p \in 1..Len(raw) : raw[p] = "["}

\* The (label, text) of the k-th line of the compact view: the label follows
\* the "[", the text runs from after "] " to the line break before the next
\* "[" (or to the end).
CompactEntry(raw, k) ==
  LET p == Nth(CompactMarks(raw), k)
      q == IF k = Cardinality(CompactMarks(raw)) THEN Len(raw)
           ELSE Nth(CompactMarks(raw), k + 1) - 2
  IN  [speaker_label |-> raw[p + 1], text |-> SubSeq(raw, p + 3, q)]

\* The block names of the text, in order.
BlockMarks(txt) == {p \in 1..Len(txt) : txt[p] = "**"}
BlockName(txt, k) == txt[Nth(BlockMarks(txt), k) + 1]

LabelsOf(utts) == {utts[k].speaker_label : k \in 1..Len(utts)}

\* C17: in a run that has rendered, the list reconstruct returned feeds the
\* three views: the compact view has one "[label] text" line per uncoalesced
\* utterance with its raw label, the text has one block per run of equal
\* labels of that list (gap ignored), named through the mapping, and the
\* record stream has one row per uncoalesced utterance with its label; the
\* labels behind the text's blocks all occur in the record stream and in the
\* compact view.
C17_OnePassFeedsAllViews ==
  Rendered =>
    LET n == Len(recon_out)
        rows == LinesOf(final_jsonl)
        runs == Starts(recon_out, None)
    IN  /\ Cardinality(CompactMarks(raw_for_bedrock)) = n
        /\ \A k \in 1..n :
             /\ CompactEntry(raw_for_bedrock, k).speaker_label
                  = recon_out[k].speaker_label
             /\ CompactEntry(raw_for_bedrock, k).text = recon_out[k].text
        /\ Len(rows) = n
        /\ \A k \in 1..n : ParseStr(rows[k][7]) = recon_out[k].speaker_label
        /\ Len(coalesced_for_txt) = Cardinality(runs)
        /\ Cardinality(BlockMarks(final_txt)) = Cardinality(runs)
        /\ \A k \in 1..Len(coalesced_for_txt) :
             LET b == Nth(runs, k)
             IN  /\ coalesced_for_txt[k].speaker_label
                      = recon_out[b].speaker_label
                 /\ coalesced_for_txt[k].text
                      = RunText(recon_out, b, RunEnd(recon_out, None, b))
                 /\ BlockName(final_txt, k)
                      = MapGet(speaker_map, recon_out[b].speaker_label,
                               UNKNOWN_SPEAKER)
        /\ LabelsOf(coalesced_for_txt)
             \subseteq {ParseStr(rows[k][7]) : k \in 1..Len(rows)}
        /\ LabelsOf(coalesced_for_txt)
             \subseteq {CompactEntry(raw_for_bedrock, k).speaker_label :
                          k \in 1..Cardinality(CompactMarks(raw_for_bedrock))}

\* C17 witness: three utterances of two speakers, the last two of one
\* speaker: three lines in the compact view and in the record stream, two
\* blocks in the text, the first named by the oracle.
C17_Witness ==
  /\ pc = "done"
  /\ Len(recon_out) = 3
  /\ Len(coalesced_for_txt) = 2
  /\ LabelsOf(recon_out) = {"spk_0", "spk_1"}
  /\ reply.kind = "json"
  /\ BlockName(final_txt, 1) = "Chair"
  /\ Len(LinesOf(final_jsonl)) = 3

\* ------------------------------------------------------ the buffer, claims
BetweenTokens == pc = "loop"

BufferEmpty == cur.speaker_label = NoLabel /\ cur.text_parts = <<>>
BufferAccumulating == cur.speaker_label # NoLabel /\ cur.text_parts # <<>>
BufferUnlabelled == cur.speaker_label = NoLabel /\ cur.text_parts # <<>>

\* Some pronunciation token processed so far resolved to a non-null label.
SpeakerEstablished ==
  \E i \in 1..Len(log) : log[i].kind = "pron" /\ log[i].label # NoLabel

\* C18 as stated: between tokens the buffer is Empty or Accumulating.
C18_EmptyOrAccumulating ==
  BetweenTokens => (BufferEmpty \/ BufferAccumulating)

\* C18 amended: between tokens the buffer is Empty, Accumulating or
\* Unlabelled (null label, at least one part); a non-null label with no
\* parts never occurs, Empty occurs only while every token so far was
\* skipped, and Unlabelled only while no pronunciation token has resolved to
\* a label.
C18_BufferStates ==
  BetweenTokens =>
    /\ (BufferEmpty \/ BufferAccumulating \/ BufferUnlabelled)
    /\ BufferEmpty => \A i \in 1..Len(log) : log[i].kind = "skip"
    /\ BufferUnlabelled => ~SpeakerEstablished

\* C18 witness: a document with speaker ranges that opens with a comma: after
\* the comma the buffer has no label and one part, and a word is next.
C18_Witness ==
  /\ BetweenTokens
  /\ doc.has_speaker_labels
  /\ Len(log) = 1 /\ log[1].kind = "punct"
  /\ BufferUnlabelled
  /\ cur.text_parts = << <<",">> >>
  /\ Len(unique_items) >= 2
  /\ IsPron(unique_items[2])

\* The loop is about to process a token that has alternatives and is not a
\* pronunciation.
AtPunct ==
  /\ pc = "loop"
  /\ idx <= Len(unique_items)
  /\ ~LoopSkips(unique_items[idx])
  /\ ~IsPron(unique_items[idx])

\* C19: a punctuation token, whatever label or times it carries, appends its
\* text to the buffer's parts with no space before it and changes nothing
\* else: label, start_time, end_time, the last pronunciation end, the
\* utterances emitted and the number of flushes stay as they were.
C19_PunctuationOnlyAppends ==
  [][(AtPunct /\ idx' = idx + 1) =>
       /\ cur'.text_parts = Append(cur.text_parts, unique_items[idx].content)
       /\ Join(cur'.text_parts)
            = Join(cur.text_parts) \o unique_items[idx].content
       /\ cur'.speaker_label = cur.speaker_label
       /\ cur'.start_time = cur.start_time
       /\ cur'.end_time = cur.end_time
       /\ last_word_end' = last_word_end
       /\ utterances' = utterances
       /\ nflush' = nflush
       /\ pc' = "loop"]_vars

\* C19 witness: after a word of spk_0, a comma that carries the label spk_1
\* and a time a long silence later has been appended to spk_0's buffer.
C19_Witness ==
  /\ pc = "loop"
  /\ Len(log) = 2
  /\ log[1].kind = "pron" /\ log[2].kind = "punct"
  /\ unique_items[2].speaker_label = "spk_1"
  /\ unique_items[2].start_time = Num(GAP + MaxOff + 1)
  /\ cur.speaker_label = "spk_0"
  /\ cur.text_parts = << <<"a">>, <<",">> >>
  /\ last_word_end = Some(0)
  /\ nflush = 1

\* ------------------------------------------------ speaker persistence, claims
PronEntries == {i \in 1..Len(log) : log[i].kind = "pron"}

\* The pronunciation entry before entry j.
PrevPron(j) == CHOOSE i \in PronEntries : i < j /\ \A k \in PronEntries : k < j => k <= i

\* The token of entry j has no inline label and its start is in no range.
Uncovered(j) ==
  /\ ~Truthy(unique_items[log[j].i].speaker_label)
  /\ \A r \in 1..Len(ranges) : ~Holds(r, log[j].st)

\* The buffers that a flush emitted as utterances.
EmittedBuffer(b) == \E k \in 1..Len(utt_buf) : utt_buf[k] = b

\* C20 as stated: once a pronunciation token has resolved to a speaker (a
\* label that is neither null nor empty), every later pronunciation token
\* leaves the buffer with a non-null label, takes the previous word's
\* speaker when it has no inline label and no range covers its start, and is
\* in an utterance reconstruct returns.
C20_LastSpeakerPersists ==
  \A i, j \in PronEntries :
    (i < j /\ Truthy(log[i].label)) =>
      /\ log[j].label # NoLabel
      /\ Uncovered(j) => log[j].label = log[PrevPron(j)].label
      /\ pc = "returned" => EmittedBuffer(log[j].buf)

\* ------------------------------------------------------ timestamps, claims
\* The pronunciation entries of the log that went into buffer b.
PronsOf(b) == {i \in PronEntries : log[i].buf = b}

FirstOf(S) == CHOOSE i \in S : \A j \in S : i <= j
LastOf(S) == CHOOSE i \in S : \A j \in S : j <= i

RECURSIVE WordsFrom(_, _)
WordsFrom(t, w) ==
  IF t = <<>> THEN (IF w = <<>> THEN <<>> ELSE <<w>>)
  ELSE IF Head(t) = " "
       THEN (IF w = <<>> THEN <<>> ELSE <<w>>) \o WordsFrom(Tail(t), <<>>)
       ELSE IF Head(t) \in {",", "\n"} THEN WordsFrom(Tail(t), w)
       ELSE WordsFrom(Tail(t), Append(w, Head(t)))

\* The words of the utterances k..Len(utts), read in order.
RECURSIVE WordsOfUtterances(_, _)
WordsOfUtterances(utts, k) ==
  IF k > Len(utts) THEN <<>>
  ELSE WordsFrom(utts[k].text, <<>>) \o WordsOfUtterances(utts, k + 1)

\* The non-empty texts of the pronunciation tokens i..Len(log) of the stream
\* whose buffer was emitted.
RECURSIVE EmittedWords(_)
EmittedWords(i) ==
  IF i > Len(log) THEN <<>>
  ELSE (IF log[i].kind = "pron" /\ EmittedBuffer(log[i].buf)
           /\ unique_items[log[i].i].content # <<>>
        THEN <<unique_items[log[i].i].content>> ELSE <<>>)
       \o EmittedWords(i + 1)

\* C22 as stated: the words of the utterances returned, read in order, are
\* the texts of the deduplicated pronunciation tokens in stream order, each
\* once, and a token is absent only when its buffer was discarded for having
\* a null label.
C22_WordsInStreamOrder ==
  pc = "returned" =>
    /\ WordsOfUtterances(recon_out, 1) = EmittedWords(1)
    /\ \A i \in PronEntries :
         ~EmittedBuffer(log[i].buf) => log[i].label = NoLabel

\* --------------------------------------- reconstruct then coalesce, claims
\* C23 as stated: two consecutive utterances reconstruct returns differ in
\* speaker_label or are more than gap_seconds apart (next start minus
\* previous end), so coalescing the list with the same gap returns it as it
\* is.
C23_ReconstructedListIsCoalesced ==
  pc = "returned" =>
    /\ \A k \in 1..(Len(recon_out) - 1) :
         \/ recon_out[k + 1].speaker_label # recon_out[k].speaker_label
         \/ recon_out[k + 1].start_time - recon_out[k].end_time > GAP
    /\ coalesce_utterances(recon_out, Some(GAP)) = recon_out

\* Indices at which a maximal run of equal speaker_labels starts.
RunStarts(u) ==
  {i \in 1..Len(u) : i = 1 \/ u[i].speaker_label # u[i - 1].speaker_label}

\* C24: with gap_seconds None the result has no two adjacent utterances of
\* one speaker_label, whatever the pause between the inputs; it has one
\* utterance per maximal run of same-speaker inputs, and its texts read in
\* order give the input texts in their order.
C24_NoGapMergesEveryRun ==
  (CoalesceRan /\ co_gap = None) =>
    /\ \A k \in 1..(Len(co_out1) - 1) :
         co_out1[k + 1].speaker_label # co_out1[k].speaker_label
    /\ Len(co_out1) = Cardinality(RunStarts(co_in))
    /\ \A k \in 1..Len(co_out1) :
         co_out1[k].speaker_label
           = co_in[Nth(RunStarts(co_in), k)].speaker_label
    /\ WordsOfUtterances(co_out1, 1) = WordsOfUtterances(co_in, 1)

\* C24 witness: without a gap policy, two utterances of one speaker with a
\* pause of 2 between them were merged, "a" before "b", and an utterance of
\* the other speaker follows.
C24_Witness ==
  /\ pc = "co_once"
  /\ co_gap = None
  /\ Len(co_in) = 3
  /\ Len(co_out1) = 2
  /\ co_in[2].speaker_label = co_in[1].speaker_label
  /\ co_in[2].start_time - co_in[1].end_time = 2
  /\ co_out1[1].text = <<"a", " ", "b", " ">>

\* C25: coalesce_utterances leaves its argument as it was: after the call
\* the list has the same length and every utterance the same
\* speaker_label, start_time, end_time and text.
C25_ArgumentUnchanged ==
  CoalesceRan =>
    /\ Len(utterances) = Len(co_in)
    /\ \A k \in 1..Len(co_in) :
         /\ utterances[k].speaker_label = co_in[k].speaker_label
         /\ utterances[k].start_time = co_in[k].start_time
         /\ utterances[k].end_time = co_in[k].end_time
         /\ utterances[k].text = co_in[k].text

\* C25 witness: three utterances were merged into one, whose text and
\* end_time differ from the first input's, and the argument still holds the
\* three.
C25_Witness ==
  /\ pc = "co_once"
  /\ Len(co_in) = 3
  /\ Len(co_out1) = 1
  /\ co_out1[1].text # co_in[1].text
  /\ co_out1[1].end_time # co_in[1].end_time
  /\ Len(utterances) = 3
  /\ utterances[1] = co_in[1]


\* The target object was in the bucket when the stream URL had been built and
\* the existence check ran.
TargetExists == media_url # None /\ s3_check_key \in bucket

\* C26: once a stream URL has been built, a target object
\* audio/<subfolder>/<committee>_<date>.mp3 that already exists makes the
\* media fetcher return status 200 with skipped = true without downloading
\* or uploading anything, so that a download is only ever made for an absent
\* object.
C26_ExistingObjectIsSkipped ==
  TargetExists =>
    /\ downloads = <<>>
    /\ uploads = <<>>
    /\ pc = "mf_returned" =>
         fetched = Reply(200, "Meeting already processed", TRUE)

\* Whether the parameters the router extracted lack committee_name or session.
ParamsMissing ==
  ~Truthy(committee_of(params)) \/ ~Truthy(session_of(params))

\* The status the router owes for what happened.
OwedStatus ==
  IF ParamsMissing THEN 400
  ELSE IF ArnUnset(STATE_MACHINE_ARN) THEN 500
  ELSE IF response_data.kind = "exception" THEN 500
  ELSE 200

\* C27: for every event, with or without an apiPath, the router returns and
\* never raises; what it returns has messageVersion "1.0" and status 400 when
\* committee_name or session is missing, 500 when the state machine ARN is
\* unset or start_execution fails, 200 otherwise; start_execution is called
\* at most once, and only with both parameters present and the ARN set.
C27_RouterAlwaysAnswers ==
  /\ pc # "raised"
  /\ Len(sfn_calls) <= 1
  /\ sfn_calls # <<>> => (~ParamsMissing /\ ~ArnUnset(STATE_MACHINE_ARN))
  /\ pc = "rt_returned" =>
       /\ final_response[1].messageVersion = "1.0"
       /\ final_response[1].response.httpStatusCode = OwedStatus
====
